---- MODULE Spec2Model ----
(***************************************************************************)
(* View catalog of researchdb (src/src/catalog/view_catalog.py,            *)
(* src/src/catalog/models.py) as a state machine.                          *)
(*                                                                         *)
(* The catalog is the content of the view_catalog table: a set of rows.    *)
(* Every ViewCatalog method is one atomic action under Spec (the single    *)
(* process, synchronous call model) and a sequence of SQL-statement steps  *)
(* under SpecConc (several callers on the same table).                     *)
(***************************************************************************)
EXTENDS Integers, Sequences, FiniteSets, TLC

VARIABLES
    catalog,    \* rows of the view_catalog table
    next_id,    \* next AUTOINCREMENT view_id
    now,        \* datetime.now(), a logical clock
    last,       \* the last completed call under Spec: [op, name, ret]
    streak,     \* per name: increment_usage calls since a fresh DRAFT/0 registration, -1 when broken
    callers,    \* SpecConc: per caller its call, position and locals
    usage0,     \* SpecConc: per name the usage_count before the concurrent calls
    schema_graph,   \* SchemaGraph.graph, the directed graph of tables and foreign keys
    unified_graph,  \* SteinerTreeSolver.unified_graph
    result,     \* the last call recorded and what it returned
    embeddings_cache,   \* SemanticSearch.embeddings_cache: view name -> vector
    model,      \* SemanticSearch.model: 0 for None, k for the k-th SentenceTransformer loaded
    client,     \* ClaudeClient inside chat_completion: attempt, counters, outcome
    state       \* ResearchState threaded through the workflow nodes

solver_vars == <<schema_graph, unified_graph, result>>

agent_vars == <<embeddings_cache, model, client, state>>

vars == <<catalog, next_id, now, last, streak, callers, usage0, solver_vars, agent_vars>>

----------------------------------------------------------------------------
(* Bounds of the model *)

MaxUsage == 4       \* increment_usage is not called on a row whose usage_count reached it
MaxClock == 1       \* the clock starts at 0 and stops advancing here
NumCallers == 3     \* concurrent callers under SpecConc
MaxTerminals == 3   \* longest terminal list passed to the solver
MaxDepth == 2       \* largest max_depth passed to get_connected_tables
MaxDependencies == 2    \* longest depends_on_views list of a stored view

(* Program constants *)

PromoteThreshold == 3   \* view.usage_count >= 3
NoDate == -1            \* None / SQL NULL in a datetime column; clock values are >= 0

----------------------------------------------------------------------------
(* Input domains *)

ViewNames == {"v_a", "v_b", "v_c"}
\* v_b is registered before the run starts and is only read or re-registered;
\* v_c is never registered; v_a goes through the whole lifecycle.
RegisterNames == {"v_a", "v_b"}
TargetNames == {"v_a", "v_c"}

allowed_layers == {1, 2, 3}
allowed_domains == {"fraud", "compliance", "customer", "merchant", "transaction", "risk"}
allowed_statuses == {"DRAFT", "PROMOTED", "MATERIALIZED", "STALE", "ARCHIVED"}

LayerValues == {1, 4}
DomainValues == {"fraud", "sales"}
StatusValues == allowed_statuses \cup {"BOGUS"}
UsageValues == {-1, 0}

validate_layer(v) == v \in allowed_layers
validate_domain(v) == v \in allowed_domains
validate_status(v) == v \in allowed_statuses

\* The ViewMetadata objects a caller can construct: the constructor runs the
\* field validators, usage_count is any int.  Of the columns only those a
\* catalog method reads or writes after the INSERT are kept (description, tags,
\* base_tables, created_date, last_validated, ... are written once and never
\* looked at by the methods below).
ViewInputs ==
    { [view_name |-> n, layer |-> l, domain |-> d, status |-> s,
       usage_count |-> u] :
        n \in RegisterNames, l \in {x \in LayerValues : validate_layer(x)},
        d \in {x \in DomainValues : validate_domain(x)},
        s \in {x \in StatusValues : validate_status(x)},
        u \in UsageValues }

----------------------------------------------------------------------------
(* Rows and lookups *)

RowsNamed(cat, name) == {r \in cat : r.view_name = name}

FirstRow(rows) == CHOOSE r \in rows : \A q \in rows : r.view_id <= q.view_id

\* ViewMetadata.from_db_row: cls(**data) runs the validators on the stored values.
from_db_row(row) ==
    IF validate_layer(row.layer) /\ validate_domain(row.domain) /\ validate_status(row.status)
    THEN [kind |-> "Row", rows |-> {row}]
    ELSE [kind |-> "ValidationError", rows |-> {}]

find_by_name(cat, name) ==
    LET results == RowsNamed(cat, name) IN
    IF results # {} THEN from_db_row(FirstRow(results))
    ELSE [kind |-> "None", rows |-> {}]

find_by_id(cat, id) ==
    LET results == {r \in cat : r.view_id = id} IN
    IF results # {} THEN from_db_row(FirstRow(results))
    ELSE [kind |-> "None", rows |-> {}]

TheRow(found) == CHOOSE r \in found.rows : TRUE

----------------------------------------------------------------------------
(* The storage collaborator: view_catalog is keyed by unique view name *)

UniqueViolation(cat, name) == RowsNamed(cat, name) # {}

----------------------------------------------------------------------------
(* SQL statements of the catalog *)

\* to_db_dict and the column list of the INSERT: the columns kept of the view,
\* the lineage columns among them when the model carries them.
InsertedRow(id, view) ==
    IF "depends_on_views" \in DOMAIN view
    THEN [view_id |-> id, view_name |-> view.view_name, layer |-> view.layer,
          domain |-> view.domain, status |-> view.status,
          usage_count |-> view.usage_count, last_used |-> NoDate,
          promoted_date |-> NoDate, base_tables |-> view.base_tables,
          depends_on_views |-> view.depends_on_views,
          used_by_views |-> view.used_by_views]
    ELSE [view_id |-> id, view_name |-> view.view_name, layer |-> view.layer,
          domain |-> view.domain, status |-> view.status,
          usage_count |-> view.usage_count, last_used |-> NoDate,
          promoted_date |-> NoDate]

\* Mutant: INSERT OR REPLACE, the new row takes the place of the one of that name.
sql_insert_replace(cat, id, view, t) ==
    [cat |-> (cat \ RowsNamed(cat, view.view_name)) \cup
             {[view_id |-> id, view_name |-> view.view_name, layer |-> view.layer,
               domain |-> view.domain, status |-> view.status,
               usage_count |-> view.usage_count, last_used |-> NoDate,
               promoted_date |-> NoDate]},
     ok |-> TRUE]

\* INSERT INTO view_catalog (...) VALUES (...); t is the stamp of created_date
\* and last_validated, two of the columns not kept.
sql_insert(cat, id, view, t) ==
    IF UniqueViolation(cat, view.view_name)
    THEN [cat |-> cat, ok |-> FALSE]
    ELSE [cat |-> cat \cup {InsertedRow(id, view)}, ok |-> TRUE]

\* UPDATE view_catalog SET usage_count = usage_count + 1, last_used = ? WHERE view_name = ?
sql_increment(cat, name, t) ==
    LET hit == RowsNamed(cat, name) IN
    [cat |-> (cat \ hit) \cup
             {[r EXCEPT !.usage_count = @ + 1, !.last_used = t] : r \in hit},
     rows_affected |-> Cardinality(hit)]

\* Mutant: the promote UPDATE without "AND status = 'DRAFT'".
sql_promote_unguarded(cat, name, t) ==
    LET hit == RowsNamed(cat, name) IN
    [cat |-> (cat \ hit) \cup
             {[r EXCEPT !.status = "PROMOTED", !.promoted_date = t] : r \in hit},
     rows_affected |-> Cardinality(hit)]

\* UPDATE view_catalog SET status = 'PROMOTED', promoted_date = ?
\* WHERE view_name = ? AND status = 'DRAFT'
sql_promote(cat, name, t) ==
    LET hit == {r \in RowsNamed(cat, name) : r.status = "DRAFT"} IN
    [cat |-> (cat \ hit) \cup
             {[r EXCEPT !.status = "PROMOTED", !.promoted_date = t] : r \in hit},
     rows_affected |-> Cardinality(hit)]

UpdatableColumns == {"status", "usage_count", "layer", "domain"}

\* The columns of the table that hold text or JSON lists, written by update_view
\* where the model carries them.
TextColumns == {"description", "tags", "base_tables", "depends_on_views", "used_by_views"}

SetColumn(r, col, val) ==
    CASE col = "status" -> [r EXCEPT !.status = val]
      [] col = "usage_count" -> [r EXCEPT !.usage_count = val]
      [] col = "layer" -> [r EXCEPT !.layer = val]
      [] col = "domain" -> [r EXCEPT !.domain = val]
      [] col = "description" -> [r EXCEPT !.description = val]
      [] col = "tags" -> [r EXCEPT !.tags = val]
      [] col = "base_tables" -> [r EXCEPT !.base_tables = val]
      [] col = "depends_on_views" -> [r EXCEPT !.depends_on_views = val]
      [] col = "used_by_views" -> [r EXCEPT !.used_by_views = val]
      [] OTHER -> r

RECURSIVE SetColumns(_, _)
SetColumns(r, updates) ==
    IF updates = <<>> THEN r
    ELSE SetColumns(SetColumn(r, Head(updates)[1], Head(updates)[2]), Tail(updates))

\* UPDATE view_catalog SET c1 = ?, ... WHERE view_name = ?
\* updates is the dict as a sequence of <<column, value>>; a column the table
\* does not have makes the statement fail.
sql_update(cat, name, updates) ==
    LET hit == RowsNamed(cat, name) IN
    IF \E i \in DOMAIN updates : updates[i][1] \notin UpdatableColumns \cup TextColumns
    THEN [cat |-> cat, rows_affected |-> 0, error |-> TRUE]
    ELSE [cat |-> (cat \ hit) \cup {SetColumns(r, updates) : r \in hit},
          rows_affected |-> Cardinality(hit), error |-> FALSE]

----------------------------------------------------------------------------
(* ViewCatalog methods: result [cat, ret] of a call on catalog content cat *)

\* Mutant: register_view without the existence check.
register_view_nocheck(cat, id, view, t) ==
    LET ins == sql_insert(cat, id, view, t) IN
    IF ~ins.ok THEN [cat |-> cat, ret |-> "IntegrityError"]
    ELSE [cat |-> ins.cat, ret |-> find_by_id(ins.cat, id).kind]

\* A pydantic ValidationError raised by find_by_name is a ValueError (its base
\* class), as is the "View already exists" error: ret names the exception class.
register_view(cat, id, view, t) ==
    LET existing == find_by_name(cat, view.view_name)
        ins == sql_insert(cat, id, view, t)
    IN  IF existing.kind # "None" THEN [cat |-> cat, ret |-> "ValueError"]
        ELSE IF ~ins.ok THEN [cat |-> cat, ret |-> "IntegrityError"]
        ELSE [cat |-> ins.cat, ret |-> find_by_id(ins.cat, id).kind]

\* Mutant: promote_view on a row of any status.
promote_view_any(cat, name, t) ==
    LET upd == sql_promote_unguarded(cat, name, t) IN
    [cat |-> upd.cat, ret |-> IF upd.rows_affected > 0 THEN "True" ELSE "False"]

promote_view(cat, name, t) ==
    LET upd == sql_promote(cat, name, t) IN
    [cat |-> upd.cat, ret |-> IF upd.rows_affected > 0 THEN "True" ELSE "False"]

\* Mutant: the threshold test with > in place of >=.
increment_usage_late(cat, name, t) ==
    LET upd == sql_increment(cat, name, t)
        view == find_by_name(upd.cat, name)
    IN  IF upd.rows_affected > 0
        THEN IF view.kind = "ValidationError"
             THEN [cat |-> upd.cat, ret |-> "False"]
             ELSE IF view.kind = "Row"
                     /\ TheRow(view).usage_count > PromoteThreshold
                     /\ TheRow(view).status = "DRAFT"
                  THEN [cat |-> promote_view(upd.cat, name, t).cat, ret |-> "True"]
                  ELSE [cat |-> upd.cat, ret |-> "True"]
        ELSE [cat |-> cat, ret |-> "False"]

increment_usage(cat, name, t) ==
    LET upd == sql_increment(cat, name, t)
        view == find_by_name(upd.cat, name)
    IN  IF upd.rows_affected > 0
        THEN IF view.kind = "ValidationError"
             THEN [cat |-> upd.cat, ret |-> "False"]
             ELSE IF view.kind = "Row"
                     /\ TheRow(view).usage_count >= PromoteThreshold
                     /\ TheRow(view).status = "DRAFT"
                  THEN [cat |-> promote_view(upd.cat, name, t).cat, ret |-> "True"]
                  ELSE [cat |-> upd.cat, ret |-> "True"]
        ELSE [cat |-> cat, ret |-> "False"]

\* Mutant: rows_affected >= 0 in place of rows_affected > 0.
update_view_ge(cat, name, updates) ==
    LET upd == sql_update(cat, name, updates) IN
    IF updates = <<>> THEN [cat |-> cat, ret |-> "False"]
    ELSE IF upd.error THEN [cat |-> cat, ret |-> "False"]
    ELSE [cat |-> upd.cat, ret |-> IF upd.rows_affected >= 0 THEN "True" ELSE "False"]

update_view(cat, name, updates) ==
    LET upd == sql_update(cat, name, updates) IN
    IF updates = <<>> THEN [cat |-> cat, ret |-> "False"]
    ELSE IF upd.error THEN [cat |-> cat, ret |-> "False"]
    ELSE [cat |-> upd.cat, ret |-> IF upd.rows_affected > 0 THEN "True" ELSE "False"]

\* Mutant: a hard delete.
delete_view_hard(cat, name) ==
    [cat |-> cat \ RowsNamed(cat, name),
     ret |-> IF RowsNamed(cat, name) # {} THEN "True" ELSE "False"]

delete_view(cat, name) == update_view(cat, name, <<<<"status", "ARCHIVED">>>>)

\* Only the shape of the result: {} for an unknown name, the lineage dict
\* otherwise; a stored row that fails validation makes find_by_name raise.
get_view_lineage(cat, name) ==
    LET view == find_by_name(cat, name) IN
    IF view.kind = "None" THEN "EmptyDict"
    ELSE IF view.kind = "ValidationError" THEN "ValidationError"
    ELSE "Lineage"

----------------------------------------------------------------------------
(* Schema graph (src/src/graph/schema_graph.py)                            *)
(*                                                                         *)
(* A directed graph is [nodes, weight] with weight a function on the       *)
(* <<from, to>> pairs that are edges; an undirected graph is               *)
(* [nodes, views, weight] with weight a function on two-element node sets  *)
(* and views the nodes whose 'type' attribute is 'view'.  Edge weights are *)
(* exact rationals, kept as integer counts of 1/WeightDen.                 *)

WeightDen == 6          \* an edge of weight 1.0 is WeightDen units
RoundUnits == 10000     \* round(x, 4): total_cost is a count of 1/10000

\* db.get_all_tables(): SELECT name FROM sqlite_master ... ORDER BY name
TableOrder == <<"channels", "mcc_codes", "merchants", "transactions">>
Tables == {TableOrder[i] : i \in DOMAIN TableOrder}
UnknownTable == "ghost"

\* PRAGMA foreign_key_list: <<from_table, to_table>>
ForeignKeys ==
    {<<"transactions", "merchants">>, <<"transactions", "channels">>,
     <<"merchants", "mcc_codes">>, <<"channels", "mcc_codes">>}

\* SELECT COUNT(*) per table
RowCountProfiles ==
    {[t \in Tables |-> 1],
     [t \in Tables |-> 0],
     [t \in Tables |-> IF t \in {"transactions", "channels"} THEN 3 ELSE 1],
     [t \in Tables |-> IF t = "mcc_codes" THEN 3 ELSE 0]}

Databases ==
    {[row_count |-> rc, foreign_keys |-> fks] :
        rc \in RowCountProfiles, fks \in SUBSET ForeignKeys}

SetMax(S) == CHOOSE x \in S : \A y \in S : y <= x
SetMin(S) == CHOOSE x \in S : \A y \in S : x <= y

\* Mutant: the weight is not normalised by the largest table.
fk_weight_sum(from_rows, to_rows, max_rows) ==
    IF max_rows > 0 THEN (from_rows + to_rows) * WeightDen
    ELSE WeightDen

\* weight = (from_row_count + to_row_count) / (2 * max_rows) if max_rows > 0 else 1.0
fk_weight(from_rows, to_rows, max_rows) ==
    IF max_rows > 0 THEN ((from_rows + to_rows) * WeightDen) \div (2 * max_rows)
    ELSE WeightDen

build_from_database(db) ==
    LET max_rows == SetMax({db.row_count[t] : t \in Tables}) IN
    [nodes |-> Tables,
     weight |-> [fk \in db.foreign_keys |->
                    fk_weight(db.row_count[fk[1]], db.row_count[fk[2]], max_rows)]]

\* nx.DiGraph.to_undirected(): the two directions of a foreign key pair carry
\* the same weight, so the merged edge has it too.
to_undirected(g) ==
    LET es == {{fk[1], fk[2]} : fk \in DOMAIN g.weight} IN
    [nodes |-> g.nodes,
     views |-> {},
     weight |-> [e \in es |->
                    LET fk == CHOOSE k \in DOMAIN g.weight : {k[1], k[2]} = e
                    IN g.weight[fk]]]

Edges(G) == DOMAIN G.weight

Neighbors(G, n) == {m \in G.nodes : {n, m} \in Edges(G)}

RECURSIVE Reach(_, _)
Reach(G, S) ==
    LET S2 == S \cup UNION {Neighbors(G, n) : n \in S} IN
    IF S2 = S THEN S ELSE Reach(G, S2)

\* nx.connected_components
connected_components(G) == {Reach(G, {n}) : n \in G.nodes}

\* nx.is_connected
is_connected(G) == \E n \in G.nodes : Reach(G, {n}) = G.nodes

\* G.subgraph(nodes).copy()
subgraph(G, nodes) ==
    [nodes |-> G.nodes \cap nodes,
     views |-> G.views \cap nodes,
     weight |-> [e \in {d \in Edges(G) : d \subseteq nodes} |-> G.weight[e]]]

\* The simple paths that continue path up to target.
RECURSIVE ExtendPaths(_, _, _)
ExtendPaths(G, path, target) ==
    LET cur == path[Len(path)]
        fresh == {m \in Neighbors(G, cur) : \A i \in DOMAIN path : path[i] # m}
    IN
    IF cur = target THEN {path}
    ELSE UNION {ExtendPaths(G, Append(path, m), target) : m \in fresh}

PathEdges(p) == {{p[i], p[i + 1]} : i \in 1..(Len(p) - 1)}

RECURSIVE SumWeights(_, _)
SumWeights(G, es) ==
    IF es = {} THEN 0
    ELSE LET e == CHOOSE d \in es : TRUE IN G.weight[e] + SumWeights(G, es \ {e})

\* nx.shortest_path(G, source, target) without a weight: the paths of fewest
\* hops; which one of them is returned is the library's choice.
hop_shortest_paths(G, source, target) ==
    LET ps == ExtendPaths(G, <<source>>, target) IN
    {p \in ps : \A q \in ps : Len(p) <= Len(q)}

\* SchemaGraph.get_table_info
get_table_info(g, table_name) ==
    IF table_name \notin g.nodes THEN "ValueError" ELSE "Info"

\* SchemaGraph.get_shortest_path: the outcomes [kind, path]
get_shortest_path(g, source, target) ==
    LET undirected == to_undirected(g) IN
    IF source \notin undirected.nodes \/ target \notin undirected.nodes
    THEN {[kind |-> "NodeNotFound", path |-> <<>>]}
    ELSE IF hop_shortest_paths(undirected, source, target) = {}
         THEN {[kind |-> "None", path |-> <<>>]}
         ELSE {[kind |-> "Path", path |-> p] :
                  p \in hop_shortest_paths(undirected, source, target)}

\* SchemaGraph.get_connected_tables: BFS to max_depth hops, origin removed
get_connected_tables(g, table_name, max_depth) ==
    LET undirected == to_undirected(g) IN
    IF table_name \notin g.nodes THEN [kind |-> "List", tables |-> {}]
    ELSE [kind |-> "List",
          tables |-> {m \in undirected.nodes \ {table_name} :
                         \E p \in ExtendPaths(undirected, <<table_name>>, m) :
                            Len(p) - 1 <= max_depth}]

\* SchemaGraph.calculate_join_cost: the outcomes [kind, cost]
calculate_join_cost(g, table1, table2) ==
    LET undirected == to_undirected(g) IN
    IF table1 \notin g.nodes \/ table2 \notin g.nodes
    THEN {[kind |-> "inf", cost |-> 0]}
    ELSE IF <<table1, table2>> \in DOMAIN g.weight
    THEN {[kind |-> "Cost", cost |-> g.weight[<<table1, table2>>]]}
    ELSE IF <<table2, table1>> \in DOMAIN g.weight
    THEN {[kind |-> "Cost", cost |-> g.weight[<<table2, table1>>]]}
    ELSE IF hop_shortest_paths(undirected, table1, table2) = {}
    THEN {[kind |-> "inf", cost |-> 0]}
    ELSE {[kind |-> "Cost", cost |-> SumWeights(undirected, PathEdges(p))] :
             p \in hop_shortest_paths(undirected, table1, table2)}

----------------------------------------------------------------------------
(* Steiner tree solver (src/src/graph/steiner_tree.py)                     *)
(*                                                                         *)
(* Terminal lists are duplicate-free and are kept as sets.  Every function *)
(* whose outcome depends on a choice the library makes among equally good  *)
(* candidates (ties between shortest paths or between spanning trees)      *)
(* yields the set of its possible outcomes.                                *)

\* ViewCatalog.get_all_views(status=...): the rows of that status, each read
\* through ViewMetadata.from_db_row.
get_all_views(cat, status) ==
    LET results == {r \in cat : r.status = status} IN
    IF \E r \in results : from_db_row(r).kind = "ValidationError"
    THEN [kind |-> "ValidationError", rows |-> {}]
    ELSE [kind |-> "List", rows |-> results]

\* Mutant: every view of the catalog becomes a node, whatever its status.
build_unified_graph_all(g, cat) ==
    LET graph == to_undirected(g)
        views == cat
        nodes == graph.nodes \cup {v.view_name : v \in views}
        view_edges == UNION {{{v.view_name, t} : t \in (v.base_tables \cap nodes) \ {v.view_name}} :
                                v \in views}
    IN
    [kind |-> "Graph",
     graph |-> [nodes |-> nodes,
                views |-> {v.view_name : v \in views},
                weight |-> [e \in Edges(graph) \cup view_edges |->
                               IF e \in view_edges THEN 0 ELSE graph.weight[e]]]]

\* SteinerTreeSolver._build_unified_graph: [kind, graph]
build_unified_graph(g, cat) ==
    LET graph == to_undirected(g)
        promoted == get_all_views(cat, "PROMOTED")
        materialized == get_all_views(cat, "MATERIALIZED")
        views == promoted.rows \cup materialized.rows
        nodes == graph.nodes \cup {v.view_name : v \in views}
        \* for table in view.base_tables: if table in graph: add_edge(..., weight=0.0)
        view_edges == UNION {{{v.view_name, t} : t \in (v.base_tables \cap nodes) \ {v.view_name}} :
                                v \in views}
    IN
    IF promoted.kind = "ValidationError" \/ materialized.kind = "ValidationError"
    THEN [kind |-> "ValidationError", graph |-> graph]
    ELSE [kind |-> "Graph",
          graph |-> [nodes |-> nodes,
                     views |-> {v.view_name : v \in views},
                     weight |-> [e \in Edges(graph) \cup view_edges |->
                                    IF e \in view_edges THEN 0 ELSE graph.weight[e]]]]

\* The place of a node in the iteration order of the graph: the tables in
\* TableOrder, the view nodes after them.
NodeIndex(n) ==
    IF n \in Tables THEN CHOOSE i \in DOMAIN TableOrder : TableOrder[i] = n
    ELSE Len(TableOrder) + 1

FirstIndex(c) == SetMin({NodeIndex(n) : n \in c})

\* max(list(nx.connected_components(graph)), key=len): the first of the
\* components with the most nodes, in the order of their first nodes.
largest_component(G) ==
    LET components == connected_components(G)
        best == {c \in components : \A d \in components : Cardinality(d) <= Cardinality(c)}
    IN CHOOSE c \in best : \A d \in best : FirstIndex(c) <= FirstIndex(d)

\* A path that passes an edge from one of its nodes to a later one which weighs
\* no more than the stretch of the path between them: Dijkstra's search reaches
\* the later node over that edge first and never returns such a path.
HasShortcut(G, p) ==
    \E i \in DOMAIN p, j \in DOMAIN p :
        /\ i + 1 < j
        /\ {p[i], p[j]} \in Edges(G)
        /\ G.weight[{p[i], p[j]}] <= SumWeights(G, {{p[k], p[k + 1]} : k \in i..(j - 1)})

\* The paths Dijkstra's search can return between two nodes of a connected
\* graph: of least weight, without a shortcut.
shortest_paths(G, u, v) ==
    LET ps == ExtendPaths(G, <<u>>, v)
        least == SetMin({SumWeights(G, PathEdges(p)) : p \in ps})
    IN {p \in ps : SumWeights(G, PathEdges(p)) = least /\ ~HasShortcut(G, p)}

distance(G, u, v) ==
    SetMin({SumWeights(G, PathEdges(p)) : p \in ExtendPaths(G, <<u>>, v)})

TerminalPairs(T) == {p \in SUBSET T : Cardinality(p) = 2}

PairDistance(G, p) ==
    LET u == CHOOSE x \in p : TRUE
        v == CHOOSE x \in p : x # u
    IN distance(G, u, v)

RECURSIVE SumDistances(_, _)
SumDistances(D, ps) ==
    IF ps = {} THEN 0
    ELSE LET p == CHOOSE q \in ps : TRUE IN D[p] + SumDistances(D, ps \ {p})

\* Spanning trees of the complete graph on the terminals.
SpanningTrees(T) ==
    LET root == CHOOSE t \in T : TRUE IN
    {S \in SUBSET TerminalPairs(T) :
        /\ Cardinality(S) = Cardinality(T) - 1
        /\ Reach([nodes |-> T, weight |-> [e \in S |-> 0]], {root}) = T}

\* Every way of replacing each pair by one of its shortest paths: edge sets.
RECURSIVE ExpandPaths(_, _)
ExpandPaths(G, pairs) ==
    IF pairs = {} THEN {{}}
    ELSE LET p == CHOOSE q \in pairs : TRUE
             u == CHOOSE x \in p : TRUE
             v == CHOOSE x \in p : x # u
             rest == ExpandPaths(G, pairs \ {p})
         IN {PathEdges(sp) \cup r : sp \in shortest_paths(G, u, v), r \in rest}

\* nx.algorithms.approximation.steiner_tree(G, terminals, weight='weight'):
\* minimum spanning tree of the metric closure on the terminals, each of its
\* edges expanded into a shortest path, the union of the edges.
steiner_tree(G, terminals) ==
    LET D == [p \in TerminalPairs(terminals) |-> PairDistance(G, p)]
        trees == SpanningTrees(terminals)
        least == SetMin({SumDistances(D, S) : S \in trees})
        msts == {S \in trees : SumDistances(D, S) = least}
    IN UNION {ExpandPaths(G, S) : S \in msts}

\* Mutant: truncation to four decimal places.
round4_floor(n) == (n * RoundUnits) \div WeightDen

\* round(total_cost, 4): units of 1/WeightDen to the nearest 1/RoundUnits
round4(n) == (2 * n * RoundUnits + WeightDen) \div (2 * WeightDen)

\* SteinerTreeSolver._empty_result
empty_result ==
    [kind |-> "Solution", nodes |-> {}, edges |-> {}, terminal_tables |-> {},
     tables_used |-> {}, views_used |-> {}, total_cost |-> 0, used_views |-> FALSE]

\* Mutant: a single table is answered like an empty terminal list.
single_table_result_empty(table) == empty_result

\* SteinerTreeSolver._single_table_result
single_table_result(table) ==
    [kind |-> "Solution", nodes |-> {table}, edges |-> {}, terminal_tables |-> {table},
     tables_used |-> {table}, views_used |-> {}, total_cost |-> 0, used_views |-> FALSE]

\* SteinerTreeSolver._analyze_solution; steiner_tree is G.edge_subgraph(edges)
analyze_solution(G, tree_edges, terminal_tables, used_views) ==
    LET nodes == UNION tree_edges IN
    [kind |-> "Solution", nodes |-> nodes, edges |-> tree_edges,
     terminal_tables |-> terminal_tables,
     tables_used |-> nodes \ G.views,
     views_used |-> nodes \cap G.views,
     total_cost |-> round4(SumWeights(G, tree_edges)),
     used_views |-> used_views]

Raised(kind) ==
    [kind |-> kind, nodes |-> {}, edges |-> {}, terminal_tables |-> {},
     tables_used |-> {}, views_used |-> {}, total_cost |-> 0, used_views |-> FALSE]

NoGraph == [nodes |-> {}, views |-> {}, weight |-> [e \in {} |-> 0]]

\* Mutant: the trivial terminal lists are answered before the terminals are validated.
solve_trivial_first(g, cat, ug, terminal_tables, use_views) ==
    LET missing == terminal_tables \ g.nodes
        built == build_unified_graph(g, cat)
        graph == IF use_views THEN built.graph ELSE to_undirected(g)
        ug2 == IF use_views THEN built.graph ELSE ug
        connected == is_connected(graph)
        component == subgraph(graph, largest_component(graph))
        work == IF connected THEN graph ELSE component
        terminals == IF connected THEN terminal_tables
                     ELSE terminal_tables \cap component.nodes
    IN
    IF Cardinality(terminal_tables) = 0
    THEN {[result |-> empty_result, unified_graph |-> ug]}
    ELSE IF Cardinality(terminal_tables) = 1
    THEN {[result |-> single_table_result(CHOOSE t \in terminal_tables : TRUE),
           unified_graph |-> ug]}
    ELSE IF missing # {}
    THEN {[result |-> Raised("ValueError"), unified_graph |-> ug]}
    ELSE IF use_views /\ built.kind = "ValidationError"
    THEN {[result |-> Raised("ValidationError"), unified_graph |-> ug]}
    ELSE IF Cardinality(terminals) = 0
    THEN {[result |-> empty_result, unified_graph |-> ug2]}
    ELSE IF Cardinality(terminals) = 1
    THEN {[result |-> single_table_result(CHOOSE t \in terminals : TRUE),
           unified_graph |-> ug2]}
    ELSE {[result |-> analyze_solution(work, tree_edges, terminals, use_views),
           unified_graph |-> ug2] : tree_edges \in steiner_tree(work, terminals)}

\* SteinerTreeSolver.solve: the outcomes [result, unified_graph], ug being
\* self.unified_graph before the call.
solve(g, cat, ug, terminal_tables, use_views) ==
    LET missing == terminal_tables \ g.nodes
        built == build_unified_graph(g, cat)
        graph == IF use_views THEN built.graph ELSE to_undirected(g)
        ug2 == IF use_views THEN built.graph ELSE ug
        connected == is_connected(graph)
        component == subgraph(graph, largest_component(graph))
        work == IF connected THEN graph ELSE component
        terminals == IF connected THEN terminal_tables
                     ELSE terminal_tables \cap component.nodes
    IN
    IF missing # {}
    THEN {[result |-> Raised("ValueError"), unified_graph |-> ug]}
    ELSE IF Cardinality(terminal_tables) = 0
    THEN {[result |-> empty_result, unified_graph |-> ug]}
    ELSE IF Cardinality(terminal_tables) = 1
    THEN {[result |-> single_table_result(CHOOSE t \in terminal_tables : TRUE),
           unified_graph |-> ug]}
    ELSE IF use_views /\ built.kind = "ValidationError"
    THEN {[result |-> Raised("ValidationError"), unified_graph |-> ug]}
    ELSE IF Cardinality(terminals) = 0
    THEN {[result |-> empty_result, unified_graph |-> ug2]}
    ELSE IF Cardinality(terminals) = 1
    THEN {[result |-> single_table_result(CHOOSE t \in terminals : TRUE),
           unified_graph |-> ug2]}
    ELSE {[result |-> analyze_solution(work, tree_edges, terminals, use_views),
           unified_graph |-> ug2] : tree_edges \in steiner_tree(work, terminals)}

\* SteinerTreeSolver.compare_solutions: the outcomes [result, unified_graph]
compare_solutions(g, cat, ug, terminal_tables) ==
    UNION {
        IF without.result.kind # "Solution"
        THEN {[result |-> [kind |-> without.result.kind, cost_without |-> 0, cost_with |-> 0,
                           cost_reduction |-> 0, tables_avoided |-> 0],
               unified_graph |-> without.unified_graph]}
        ELSE {[result |->
                  IF with.result.kind # "Solution"
                  THEN [kind |-> with.result.kind, cost_without |-> 0, cost_with |-> 0,
                        cost_reduction |-> 0, tables_avoided |-> 0]
                  ELSE [kind |-> "Comparison",
                        cost_without |-> without.result.total_cost,
                        cost_with |-> with.result.total_cost,
                        cost_reduction |-> without.result.total_cost - with.result.total_cost,
                        tables_avoided |-> Cardinality(without.result.tables_used)
                                           - Cardinality(with.result.tables_used)],
               unified_graph |-> with.unified_graph] :
                 with \in solve(g, cat, without.unified_graph, terminal_tables, TRUE)} :
        without \in solve(g, cat, ug, terminal_tables, FALSE)}

----------------------------------------------------------------------------
(* Lineage (ViewCatalog.get_view_lineage and _calculate_depth) on rows     *)
(* that carry the lineage columns depends_on_views and used_by_views       *)

\* ViewCatalog._calculate_depth(view, visited): [kind, depth]; a stored row
\* that fails validation makes find_by_name raise out of the recursion.
RECURSIVE calculate_depth(_, _, _)
calculate_depth(cat, view, visited) ==
    LET deps == {find_by_name(cat, d) : d \in view.depends_on_views}
        depths == {calculate_depth(cat, TheRow(f), visited \cup {view.view_name}) :
                      f \in {d \in deps : d.kind = "Row"}}
    IN
    IF view.view_name \in visited THEN [kind |-> "Depth", depth |-> 0]
    ELSE IF view.depends_on_views = {} THEN [kind |-> "Depth", depth |-> 0]
    ELSE IF \E d \in deps : d.kind = "ValidationError"
    THEN [kind |-> "ValidationError", depth |-> 0]
    ELSE IF \E r \in depths : r.kind = "ValidationError"
    THEN [kind |-> "ValidationError", depth |-> 0]
    ELSE [kind |-> "Depth", depth |-> SetMax({0} \cup {r.depth + 1 : r \in depths})]

\* ViewCatalog.get_view_lineage with its content:
\* [kind, upstream_views, downstream_views, total_depth]
view_lineage(cat, name) ==
    LET view == find_by_name(cat, name)
        row == TheRow(view)
        ups == {find_by_name(cat, d) : d \in row.depends_on_views}
        downs == {find_by_name(cat, d) : d \in row.used_by_views}
        depth == calculate_depth(cat, row, {})
        raised == [kind |-> "ValidationError", upstream_views |-> {},
                   downstream_views |-> {}, total_depth |-> 0]
    IN
    IF view.kind = "None"
    THEN [kind |-> "EmptyDict", upstream_views |-> {}, downstream_views |-> {},
          total_depth |-> 0]
    ELSE IF view.kind = "ValidationError" THEN raised
    ELSE IF \E f \in ups \cup downs : f.kind = "ValidationError" THEN raised
    ELSE IF depth.kind = "ValidationError" THEN raised
    ELSE [kind |-> "Lineage",
          upstream_views |-> {TheRow(f).view_name : f \in {d \in ups : d.kind = "Row"}},
          downstream_views |-> {TheRow(f).view_name : f \in {d \in downs : d.kind = "Row"}},
          total_depth |-> depth.depth]

----------------------------------------------------------------------------
(* Semantic search: the embedding cache and the lazily loaded model *)

layer_name(layer) ==
    CASE layer = 1 -> "discovery"
      [] layer = 2 -> "research"
      [] layer = 3 -> "compound"
      [] OTHER -> "unknown"

\* The text embed_view builds: the parts joined by " | ", a part left out when
\* its value is empty (written here as the empty value of that part).
composite_text(view) ==
    [description |-> view.description, domain |-> view.domain,
     layer |-> layer_name(view.layer), tags |-> view.tags, tables |-> view.base_tables]

\* self.model.encode(text): the vector of the embedding model for a text.
encode(text) == [encoded |-> text]

\* _load_model run to its end by one caller: the model is constructed when
\* self.model is None.
load_model(m) == IF m = 0 THEN 1 ELSE m

embed_text(m, text) == [model |-> load_model(m), embedding |-> encode(text)]

EmptyCache == [n \in {} |-> encode("")]

CachePut(cache, name, embedding) ==
    [n \in DOMAIN cache \cup {name} |-> IF n = name THEN embedding ELSE cache[n]]

\* Mutant: embed_view that recomputes on every call.
embed_view_nocache(cache, m, view) ==
    LET e == embed_text(m, composite_text(view)) IN
    [cache |-> CachePut(cache, view.view_name, e.embedding), model |-> e.model,
     embedding |-> e.embedding, encoded |-> TRUE]

embed_view(cache, m, view) ==
    IF view.view_name \in DOMAIN cache
    THEN [cache |-> cache, model |-> m, embedding |-> cache[view.view_name],
          encoded |-> FALSE]
    ELSE LET e == embed_text(m, composite_text(view)) IN
         [cache |-> CachePut(cache, view.view_name, e.embedding), model |-> e.model,
          embedding |-> e.embedding, encoded |-> TRUE]

clear_cache(cache) == EmptyCache

----------------------------------------------------------------------------
(* View integration: semantic and table-based recommendations, the decision *)
(* to create a view, and view names.  Scores and confidences are exact      *)
(* rationals in units of 1/ScoreUnits; a similarity is in thousandths.      *)

ScoreUnits == 50000
SimilarityUnits == 1000

\* results[:k] of a list sorted by key, descending: everything when the list
\* has at most k entries.
top_k(S, key(_), k) ==
    IF Cardinality(S) <= k THEN S
    ELSE CHOOSE K \in SUBSET S :
            /\ Cardinality(K) = k
            /\ \A x \in K, y \in S \ K : key(x) >= key(y)

\* ViewCatalog.find_by_base_tables, on a catalog whose rows all pass validation:
\* get_all_views() has no status filter.
find_by_base_tables(cat, table_names) ==
    {view \in cat : \E table \in table_names : table \in view.base_tables}

search_by_tables(cat, table_names, k) ==
    LET usage(v) == v.usage_count IN
    top_k(find_by_base_tables(cat, table_names), usage, k)

\* SemanticSearch.search without domain or layer; similarity[name] is the
\* cosine similarity of the query and the view's embedding.
search(cat, similarity, k, min_score) ==
    LET score(v) == similarity[v.view_name] IN
    top_k({view \in cat : score(view) >= min_score}, score, k)

\* Whether suggest_views_for_query ranks the views found by table.
ByTables(cat, tables) == tables # {} /\ search_by_tables(cat, tables, 10) # {}

suggest_views_for_query(cat, similarity, tables, k) ==
    LET score(v) == similarity[v.view_name] IN
    IF ByTables(cat, tables) THEN top_k(search_by_tables(cat, tables, 10), score, k)
    ELSE search(cat, similarity, k, 200)

\* The views suggest_views_for_query passes to embed_view.
EmbeddedViews(cat, tables) ==
    IF ByTables(cat, tables) THEN search_by_tables(cat, tables, 10) ELSE cat

recommend_views(cat, terminal_tables, k) ==
    LET score(v) == Cardinality(v.base_tables \cap terminal_tables) * 10 + v.usage_count IN
    top_k(find_by_base_tables(cat, terminal_tables), score, k)

\* semantic_score * 0.5 + steiner_score * 0.3 + (usage_count / 100) * 0.2
combined_score(semantic_score, steiner_score, usage_count) ==
    semantic_score * (ScoreUnits \div (2 * SimilarityUnits))
    + steiner_score * ((3 * ScoreUnits) \div 10)
    + usage_count * (ScoreUnits \div 500)

\* find_optimal_views up to the comparison: the ranked candidates
ranked_views(cat, similarity, terminal_tables) ==
    LET semantic_results == suggest_views_for_query(cat, similarity, terminal_tables, 5)
        steiner_recommendations == recommend_views(cat, terminal_tables, 5)
        semantic_score(v) == IF v \in semantic_results THEN similarity[v.view_name] ELSE 0
        steiner_score(v) == IF v \in steiner_recommendations THEN 1 ELSE 0
    IN  {[view |-> v, semantic_score |-> semantic_score(v),
          steiner_score |-> steiner_score(v),
          combined_score |-> combined_score(semantic_score(v), steiner_score(v),
                                            v.usage_count)] :
            v \in semantic_results \cup steiner_recommendations}

recommended_views(cat, similarity, terminal_tables) ==
    LET combined(r) == r.combined_score IN
    top_k(ranked_views(cat, similarity, terminal_tables), combined, 3)

\* The first entries a descending sort can put in front: those of the highest
\* combined score.
BestViews(recommended) ==
    {r \in recommended : \A q \in recommended : q.combined_score <= r.combined_score}

\* find_optimal_views: the outcomes [kind, recommended_views, unified_graph];
\* compare_solutions runs last and may raise.
find_optimal_views(g, cat, ug, similarity, terminal_tables) ==
    {[kind |-> IF c.result.kind = "Comparison" THEN "Views" ELSE c.result.kind,
      recommended_views |-> IF c.result.kind = "Comparison"
                            THEN recommended_views(cat, similarity, terminal_tables)
                            ELSE {},
      unified_graph |-> c.unified_graph] :
        c \in compare_solutions(g, cat, ug, terminal_tables)}

NoExistingView == [view_name |-> "none", status |-> "none"]

Decision(should_create, confidence, existing_view, suggested_layer, base_tables) ==
    [kind |-> "Decision", should_create |-> should_create, confidence |-> confidence,
     existing_view |-> [view_name |-> existing_view.view_name,
                        status |-> existing_view.status],
     suggested_layer |-> suggested_layer, base_tables |-> base_tables]

\* A should_create_view call that raised returns nothing.
RaisedDecision(kind) ==
    [kind |-> kind, should_create |-> FALSE, confidence |-> 0,
     existing_view |-> NoExistingView, suggested_layer |-> 0, base_tables |-> {}]

Min(a, b) == IF a <= b THEN a ELSE b

\* Mutant: an existing view suffices from a combined score of 0.7 on.
should_create_view_ge(g, cat, ug, similarity, terminal_tables, complexity_threshold) ==
    IF Cardinality(terminal_tables) < complexity_threshold
    THEN {[out |-> Decision(FALSE, 0, NoExistingView, 0, {}), searched |-> FALSE,
           solved |-> FALSE, unified_graph |-> ug]}
    ELSE UNION {
        IF optimal_views.kind # "Views"
        THEN {[out |-> RaisedDecision(optimal_views.kind), searched |-> TRUE, solved |-> TRUE,
               unified_graph |-> optimal_views.unified_graph]}
        ELSE IF \E best_view \in optimal_views.recommended_views :
                   best_view.combined_score >= (7 * ScoreUnits) \div 10
        THEN {[out |-> Decision(FALSE, best_view.combined_score, best_view.view, 0, {}),
               searched |-> TRUE, solved |-> TRUE,
               unified_graph |-> optimal_views.unified_graph] :
                 best_view \in BestViews(optimal_views.recommended_views)}
        ELSE {[out |-> IF steiner_solution.result.kind # "Solution"
                       THEN RaisedDecision(steiner_solution.result.kind)
                       ELSE Decision(TRUE,
                                Min(Min(Cardinality(terminal_tables) * (ScoreUnits \div 10),
                                        steiner_solution.result.total_cost
                                            * (ScoreUnits \div (5 * RoundUnits))),
                                    ScoreUnits),
                                NoExistingView, 1, terminal_tables),
               searched |-> TRUE, solved |-> TRUE,
               unified_graph |-> steiner_solution.unified_graph] :
                 steiner_solution \in solve(g, cat, optimal_views.unified_graph,
                                            terminal_tables, FALSE)} :
        optimal_views \in find_optimal_views(g, cat, ug, similarity, terminal_tables)}

\* ViewIntegration.should_create_view: the outcomes [out, searched, solved,
\* unified_graph]; searched and solved tell whether the semantic search and
\* the solver were run.
should_create_view(g, cat, ug, similarity, terminal_tables, complexity_threshold) ==
    IF Cardinality(terminal_tables) < complexity_threshold
    THEN {[out |-> Decision(FALSE, 0, NoExistingView, 0, {}), searched |-> FALSE,
           solved |-> FALSE, unified_graph |-> ug]}
    ELSE UNION {
        IF optimal_views.kind # "Views"
        THEN {[out |-> RaisedDecision(optimal_views.kind), searched |-> TRUE, solved |-> TRUE,
               unified_graph |-> optimal_views.unified_graph]}
        ELSE IF \E best_view \in optimal_views.recommended_views :
                   best_view.combined_score > (7 * ScoreUnits) \div 10
        THEN {[out |-> Decision(FALSE, best_view.combined_score, best_view.view, 0, {}),
               searched |-> TRUE, solved |-> TRUE,
               unified_graph |-> optimal_views.unified_graph] :
                 best_view \in BestViews(optimal_views.recommended_views)}
        ELSE {[out |-> IF steiner_solution.result.kind # "Solution"
                       THEN RaisedDecision(steiner_solution.result.kind)
                       ELSE Decision(TRUE,
                                Min(Min(Cardinality(terminal_tables) * (ScoreUnits \div 10),
                                        steiner_solution.result.total_cost
                                            * (ScoreUnits \div (5 * RoundUnits))),
                                    ScoreUnits),
                                NoExistingView, 1, terminal_tables),
               searched |-> TRUE, solved |-> TRUE,
               unified_graph |-> steiner_solution.unified_graph] :
                 steiner_solution \in solve(g, cat, optimal_views.unified_graph,
                                            terminal_tables, FALSE)} :
        optimal_views \in find_optimal_views(g, cat, ug, similarity, terminal_tables)}

\* The cache after suggest_views_for_query embedded the given views.
embed_views(cache, views) ==
    [n \in DOMAIN cache \cup {v.view_name : v \in views} |->
        IF n \in DOMAIN cache THEN cache[n]
        ELSE encode(composite_text(CHOOSE v \in views : v.view_name = n))]

\* A string is the sequence of its pieces between underscores, so that
\* 'fraud' is <<"fraud">> and 'merchant_patterns' <<"merchant", "patterns">>;
\* '_'.join(parts) runs the pieces of the parts together.
RECURSIVE join(_)
join(parts) == IF parts = <<>> THEN <<>> ELSE Head(parts) \o join(Tail(parts))

Suffixed(original_name, counter) == Append(original_name, ToString(counter))

\* The while loop of suggest_view_name from the given name and counter on:
\* [view_name, lookups], lookups counting the find_by_name calls.
RECURSIVE ensure_unique(_, _, _, _, _)
ensure_unique(cat, original_name, view_name, counter, lookups) ==
    IF find_by_name(cat, view_name).kind = "None"
    THEN [view_name |-> view_name, lookups |-> lookups + 1]
    ELSE ensure_unique(cat, original_name, Suffixed(original_name, counter),
                       counter + 1, lookups + 1)

\* Mutant: one suffix is tried and returned without a second look.
suggest_view_name_once(cat, domain, concept, granularity) ==
    LET parts == <<<<"v">>, domain, concept>>
                 \o (IF granularity # <<>> THEN <<granularity>> ELSE <<>>)
        view_name == join(parts)
    IN
    IF find_by_name(cat, view_name).kind = "None"
    THEN [view_name |-> view_name, lookups |-> 1]
    ELSE [view_name |-> Suffixed(view_name, 1), lookups |-> 1]

\* domain, concept and granularity are given by their parts; an absent or
\* empty granularity is the empty sequence.
suggest_view_name(cat, domain, concept, granularity) ==
    LET parts == <<<<"v">>, domain, concept>>
                 \o (IF granularity # <<>> THEN <<granularity>> ELSE <<>>)
        view_name == join(parts)
    IN
    ensure_unique(cat, view_name, view_name, 1, 0)

----------------------------------------------------------------------------
(* The solver side of a state in which no graph call was made *)

NoResult == [op |-> "none", a |-> {}, b |-> {}, use_views |-> FALSE,
             out |-> [kind |-> "none"]]

NoSolver ==
    /\ schema_graph = [nodes |-> {}, weight |-> [e \in {} |-> 0]]
    /\ unified_graph = NoGraph
    /\ result = NoResult

\* No embedding cached, no model loaded, no chat completion and no workflow
\* under way.
NoClient == [pc |-> "none"]

NoState == [current_step |-> "none"]

NoAgent ==
    /\ embeddings_cache = EmptyCache
    /\ model = 0
    /\ client = NoClient
    /\ state = NoState

----------------------------------------------------------------------------
(* Initial state *)

Bystander ==
    [view_id |-> 1, view_name |-> "v_b", layer |-> 2, domain |-> "fraud",
     status |-> "PROMOTED", usage_count |-> 3, last_used |-> 0,
     promoted_date |-> 0]

NoView == [view_name |-> "none", layer |-> 1, domain |-> "fraud", status |-> "DRAFT",
           usage_count |-> 0]

IdleCaller == [pc |-> "idle", op |-> "none", name |-> "none", view |-> NoView,
               ret |-> "none", promote |-> "none"]

Callers == 1..NumCallers

Init ==
    /\ catalog = {Bystander}
    /\ next_id = 2
    /\ now = 0
    /\ last = [op |-> "init", name |-> "none", ret |-> "none"]
    /\ streak = [n \in ViewNames |-> -1]
    /\ callers = [c \in Callers |-> IdleCaller]
    /\ usage0 = [n \in ViewNames |-> 0]
    /\ NoSolver
    /\ NoAgent

----------------------------------------------------------------------------
(* Spec: one atomic action per ViewCatalog call *)

Done(op, name, ret) == last' = [op |-> op, name |-> name, ret |-> ret]

Tick ==
    /\ now < MaxClock
    /\ now' = now + 1
    /\ UNCHANGED <<catalog, next_id, last, streak, callers, usage0, solver_vars, agent_vars>>

RegisterView(view) ==
    LET res == register_view(catalog, next_id, view, now) IN
    /\ catalog' = res.cat
    /\ next_id' = IF res.ret = "Row" THEN next_id + 1 ELSE next_id
    /\ Done("register_view", view.view_name, res.ret)
    /\ streak' = IF res.ret = "Row"
                 THEN [streak EXCEPT ![view.view_name] =
                          IF view.status = "DRAFT" /\ view.usage_count = 0 THEN 0 ELSE -1]
                 ELSE streak
    /\ UNCHANGED <<now, callers, usage0, solver_vars, agent_vars>>

FindByName(name) ==
    /\ Done("find_by_name", name, find_by_name(catalog, name).kind)
    /\ UNCHANGED <<catalog, next_id, now, streak, callers, usage0, solver_vars, agent_vars>>

GetViewLineage(name) ==
    /\ Done("get_view_lineage", name, get_view_lineage(catalog, name))
    /\ UNCHANGED <<catalog, next_id, now, streak, callers, usage0, solver_vars, agent_vars>>

IncrementUsage(name) ==
    LET res == increment_usage(catalog, name, now) IN
    /\ \A r \in RowsNamed(catalog, name) : r.usage_count < MaxUsage
    /\ catalog' = res.cat
    /\ Done("increment_usage", name, res.ret)
    /\ streak' = IF streak[name] >= 0 /\ res.ret = "True"
                 THEN [streak EXCEPT ![name] = @ + 1]
                 ELSE [streak EXCEPT ![name] = -1]
    /\ UNCHANGED <<next_id, now, callers, usage0, solver_vars, agent_vars>>

PromoteView(name) ==
    LET res == promote_view(catalog, name, now) IN
    /\ catalog' = res.cat
    /\ Done("promote_view", name, res.ret)
    /\ streak' = [streak EXCEPT ![name] = -1]
    /\ UNCHANGED <<next_id, now, callers, usage0, solver_vars, agent_vars>>

UpdateView(name, updates) ==
    LET res == update_view(catalog, name, updates) IN
    /\ catalog' = res.cat
    /\ Done("update_view", name, res.ret)
    /\ streak' = [streak EXCEPT ![name] = -1]
    /\ UNCHANGED <<next_id, now, callers, usage0, solver_vars, agent_vars>>

DeleteView(name) ==
    LET res == delete_view(catalog, name) IN
    /\ catalog' = res.cat
    /\ Done("delete_view", name, res.ret)
    /\ streak' = [streak EXCEPT ![name] = -1]
    /\ UNCHANGED <<next_id, now, callers, usage0, solver_vars, agent_vars>>

ColumnValues(col) ==
    CASE col = "status" -> StatusValues
      [] col = "usage_count" -> UsageValues
      [] col = "layer" -> LayerValues
      [] col = "domain" -> DomainValues
      [] OTHER -> {0}

Next ==
    \/ Tick
    \/ \E view \in ViewInputs : RegisterView(view)
    \/ \E name \in TargetNames : FindByName(name)
    \/ \E name \in TargetNames : GetViewLineage(name)
    \/ \E name \in TargetNames : IncrementUsage(name)
    \/ \E name \in TargetNames : PromoteView(name)
    \/ \E name \in TargetNames : UpdateView(name, <<>>)
    \/ \E name \in TargetNames, col \in UpdatableColumns \cup {"no_such_column"} :
          \E val \in ColumnValues(col) : UpdateView(name, <<<<col, val>>>>)
    \/ \E name \in TargetNames : DeleteView(name)

Spec == Init /\ [][Next]_vars

----------------------------------------------------------------------------
(* SpecConc: several callers, each making one call on the same table.  A   *)
(* call is a sequence of SQL statements; every statement opens its own     *)
(* connection and commits (DatabaseConnection.execute_query and            *)
(* execute_update), so statements of different callers interleave freely.  *)

ConcNames == {"v_a", "v_b"}

ConcViewInputs == {v \in ViewInputs : v.view_name \in ConcNames /\ v.status = "DRAFT"
                                      /\ v.usage_count = 0}

DraftRow(name, usage) ==
    [view_id |-> 1, view_name |-> name, layer |-> 1, domain |-> "fraud",
     status |-> "DRAFT", usage_count |-> usage, last_used |-> NoDate,
     promoted_date |-> NoDate]

InitConc ==
    /\ \E u \in 0..(PromoteThreshold - 1) :
          /\ catalog \in {{}, {DraftRow("v_a", u)}}
          /\ usage0 = [n \in ViewNames |-> IF n = "v_a" /\ catalog # {} THEN u ELSE 0]
    /\ next_id = Cardinality(catalog) + 1
    /\ now = 0
    /\ last = [op |-> "init", name |-> "none", ret |-> "none"]
    /\ streak = [n \in ViewNames |-> -1]
    /\ callers = [c \in Callers |-> IdleCaller]
    /\ NoSolver
    /\ NoAgent

Finish(c, ret) == [callers[c] EXCEPT !.pc = "done", !.ret = ret]

\* register_view, lines 44-47: the existence check
RegisterCheck(c, view) ==
    LET existing == find_by_name(catalog, view.view_name)
        me == [callers[c] EXCEPT !.op = "register_view", !.name = view.view_name,
                                 !.view = view]
    IN
    /\ callers[c].pc = "idle"
    /\ callers' = [callers EXCEPT ![c] =
                      IF existing.kind # "None"
                      THEN [me EXCEPT !.pc = "done", !.ret = "ValueError"]
                      ELSE [me EXCEPT !.pc = "reg_insert"]]
    /\ UNCHANGED <<catalog, next_id, now, last, streak, usage0, solver_vars, agent_vars>>

\* register_view, lines 57-82: the INSERT and the read-back
RegisterInsert(c) ==
    LET view == callers[c].view
        ins == sql_insert(catalog, next_id, view, now)
    IN
    /\ callers[c].pc = "reg_insert"
    /\ catalog' = ins.cat
    /\ next_id' = IF ins.ok THEN next_id + 1 ELSE next_id
    /\ usage0' = IF ins.ok THEN [usage0 EXCEPT ![view.view_name] = view.usage_count]
                  ELSE usage0
    /\ callers' = [callers EXCEPT ![c] =
                      Finish(c, IF ins.ok THEN find_by_id(ins.cat, next_id).kind
                                ELSE "IntegrityError")]
    /\ UNCHANGED <<now, last, streak, solver_vars, agent_vars>>

\* increment_usage, lines 175-184: the increment UPDATE
IncrementUpdate(c, name) ==
    LET upd == sql_increment(catalog, name, now)
        me == [callers[c] EXCEPT !.op = "increment_usage", !.name = name]
    IN
    /\ callers[c].pc = "idle"
    /\ \A r \in RowsNamed(catalog, name) : r.usage_count < MaxUsage
    /\ catalog' = upd.cat
    /\ callers' = [callers EXCEPT ![c] =
                      IF upd.rows_affected > 0
                      THEN [me EXCEPT !.pc = "inc_read"]
                      ELSE [me EXCEPT !.pc = "done", !.ret = "False"]]
    /\ UNCHANGED <<next_id, now, last, streak, usage0, solver_vars, agent_vars>>

\* increment_usage, lines 188-189: the read of the record and the threshold test
IncrementRead(c) ==
    LET view == find_by_name(catalog, callers[c].name) IN
    /\ callers[c].pc = "inc_read"
    /\ callers' = [callers EXCEPT ![c] =
                      IF view.kind = "ValidationError" THEN Finish(c, "False")
                      ELSE IF view.kind = "Row"
                              /\ TheRow(view).usage_count >= PromoteThreshold
                              /\ TheRow(view).status = "DRAFT"
                           THEN [callers[c] EXCEPT !.pc = "inc_promote"]
                           ELSE Finish(c, "True")]
    /\ UNCHANGED <<catalog, next_id, now, last, streak, usage0, solver_vars, agent_vars>>

\* increment_usage, lines 190-192: promote_view and the return
IncrementPromote(c) ==
    LET res == promote_view(catalog, callers[c].name, now) IN
    /\ callers[c].pc = "inc_promote"
    /\ catalog' = res.cat
    /\ callers' = [callers EXCEPT ![c] =
                      [Finish(c, "True") EXCEPT
                          !.promote = IF res.ret = "True" THEN "applied" ELSE "noop"]]
    /\ UNCHANGED <<next_id, now, last, streak, usage0, solver_vars, agent_vars>>

NextConc ==
    \/ \E c \in Callers, view \in ConcViewInputs : RegisterCheck(c, view)
    \/ \E c \in Callers : RegisterInsert(c)
    \/ \E c \in Callers, name \in ConcNames : IncrementUpdate(c, name)
    \/ \E c \in Callers : IncrementRead(c)
    \/ \E c \in Callers : IncrementPromote(c)

SpecConc == InitConc /\ [][NextConc]_vars

----------------------------------------------------------------------------
(* SpecSolve: a schema graph built from a database, a catalog content, and *)
(* the calls of SchemaGraph and SteinerTreeSolver on them                  *)

SolverRow(id, name, status, base_tables) ==
    [view_id |-> id, view_name |-> name, layer |-> 1, domain |-> "fraud",
     status |-> status, usage_count |-> 0, last_used |-> NoDate, promoted_date |-> NoDate,
     base_tables |-> base_tables, depends_on_views |-> {}, used_by_views |-> {}]

\* The catalog contents the solver runs on: a view over three joined tables
\* in each status, with or without a promoted view one of whose base tables
\* is not in the schema.
SolverCatalogs ==
    {a \cup b :
        a \in {{SolverRow(1, "v_merchant_risk_profile", st,
                          {"transactions", "merchants", "mcc_codes"})} :
                  st \in allowed_statuses},
        b \in {{}, {SolverRow(2, "v_transaction_audit", "PROMOTED",
                              {"transactions", UnknownTable})}}}

TerminalLists == {T \in SUBSET (Tables \cup {UnknownTable}) : Cardinality(T) <= MaxTerminals}

TableArgs == Tables \cup {UnknownTable}

InitSolve ==
    /\ catalog \in SolverCatalogs
    /\ \E db \in Databases : schema_graph = build_from_database(db)
    \* self.unified_graph: None, or what an earlier solve with views left there
    /\ unified_graph \in {NoGraph, build_unified_graph(schema_graph, catalog).graph}
    /\ result = NoResult
    /\ next_id = 3
    /\ now = 0
    /\ last = [op |-> "init", name |-> "none", ret |-> "none"]
    /\ streak = [n \in ViewNames |-> -1]
    /\ callers = [c \in Callers |-> IdleCaller]
    /\ usage0 = [n \in ViewNames |-> 0]
    /\ NoAgent

catalog_vars == <<catalog, next_id, now, last, streak, callers, usage0>>

\* One call is made on each drawn graph and catalog, and recorded.
Idle == result = NoResult

Called(op, a, b, use_views, out) ==
    /\ Idle
    /\ result' = [op |-> op, a |-> a, b |-> b, use_views |-> use_views, out |-> out]

Solve(terminal_tables, use_views) ==
    /\ Idle
    /\ \E o \in solve(schema_graph, catalog, unified_graph, terminal_tables, use_views) :
        /\ Called("solve", terminal_tables, {}, use_views, o.result)
        /\ unified_graph' = o.unified_graph
        /\ UNCHANGED <<schema_graph, catalog_vars, agent_vars>>

CompareSolutions(terminal_tables) ==
    /\ Idle
    /\ \E o \in compare_solutions(schema_graph, catalog, unified_graph, terminal_tables) :
        /\ Called("compare_solutions", terminal_tables, {}, TRUE, o.result)
        /\ unified_graph' = o.unified_graph
        /\ UNCHANGED <<schema_graph, catalog_vars, agent_vars>>

GetTableInfo(table_name) ==
    /\ Called("get_table_info", {table_name}, {}, FALSE,
              [kind |-> get_table_info(schema_graph, table_name)])
    /\ UNCHANGED <<schema_graph, unified_graph, catalog_vars, agent_vars>>

GetShortestPath(source, target) ==
    /\ Idle
    /\ \E o \in get_shortest_path(schema_graph, source, target) :
        /\ Called("get_shortest_path", {source}, {target}, FALSE, o)
        /\ UNCHANGED <<schema_graph, unified_graph, catalog_vars, agent_vars>>

GetConnectedTables(table_name, max_depth) ==
    /\ Called("get_connected_tables", {table_name}, {}, FALSE,
              get_connected_tables(schema_graph, table_name, max_depth))
    /\ UNCHANGED <<schema_graph, unified_graph, catalog_vars, agent_vars>>

CalculateJoinCost(table1, table2) ==
    /\ Idle
    /\ \E o \in calculate_join_cost(schema_graph, table1, table2) :
        /\ Called("calculate_join_cost", {table1}, {table2}, FALSE, o)
        /\ UNCHANGED <<schema_graph, unified_graph, catalog_vars, agent_vars>>

NextSolve ==
    \/ \E T \in TerminalLists, use_views \in BOOLEAN : Solve(T, use_views)
    \/ \E T \in TerminalLists : CompareSolutions(T)

SpecSolve == InitSolve /\ [][NextSolve]_vars

----------------------------------------------------------------------------
(* SpecGraph: a schema graph built from a database and the SchemaGraph     *)
(* calls on it                                                             *)

InitGraph ==
    /\ catalog = {}
    /\ \E db \in Databases : schema_graph = build_from_database(db)
    /\ unified_graph = NoGraph
    /\ result = NoResult
    /\ next_id = 1
    /\ now = 0
    /\ last = [op |-> "init", name |-> "none", ret |-> "none"]
    /\ streak = [n \in ViewNames |-> -1]
    /\ callers = [c \in Callers |-> IdleCaller]
    /\ usage0 = [n \in ViewNames |-> 0]
    /\ NoAgent

NextGraph ==
    \/ \E t \in TableArgs : GetTableInfo(t)
    \/ \E s \in TableArgs, t \in TableArgs : GetShortestPath(s, t)
    \/ \E t \in TableArgs, d \in 0..MaxDepth : GetConnectedTables(t, d)
    \/ \E s \in TableArgs, t \in TableArgs : CalculateJoinCost(s, t)

SpecGraph == InitGraph /\ [][NextGraph]_vars

----------------------------------------------------------------------------
(* SpecLineage: catalog contents with dependencies among views, the        *)
(* lineage call and the update_view call on them                           *)

LineageNames == {"v_a", "v_b", "v_c"}
DependencyNames == LineageNames \cup {"v_x"}     \* v_x is never registered

LineageRow(id, name, depends_on_views, used_by_views) ==
    [view_id |-> id, view_name |-> name, layer |-> 1, domain |-> "fraud",
     status |-> "DRAFT", usage_count |-> 0, last_used |-> NoDate, promoted_date |-> NoDate,
     base_tables |-> {"transactions"}, depends_on_views |-> depends_on_views,
     used_by_views |-> used_by_views]

DependencyLists == {D \in SUBSET DependencyNames : Cardinality(D) <= MaxDependencies}

LineageCatalogs ==
    {a \cup b \cup c :
        a \in {{LineageRow(1, "v_a", D, {"v_c"})} : D \in DependencyLists},
        b \in {{}} \cup {{LineageRow(2, "v_b", D, {})} : D \in DependencyLists},
        c \in {{}} \cup {{LineageRow(3, "v_c", D, {})} : D \in DependencyLists}}

InitLineage ==
    /\ catalog \in LineageCatalogs
    /\ NoSolver
    /\ next_id = 4
    /\ now = 0
    /\ last = [op |-> "init", name |-> "none", ret |-> "none"]
    /\ streak = [n \in ViewNames |-> -1]
    /\ callers = [c \in Callers |-> IdleCaller]
    /\ usage0 = [n \in ViewNames |-> 0]
    /\ NoAgent

Lineage(name) ==
    /\ Called("get_view_lineage", {name}, {}, FALSE, view_lineage(catalog, name))
    /\ UNCHANGED <<catalog, next_id, now, last, streak, callers, usage0,
                   schema_graph, unified_graph, agent_vars>>

\* update_view(name, {'layer': layer}) before the lineage call
UpdateLayer(name, layer) ==
    /\ Idle
    /\ catalog' = update_view(catalog, name, <<<<"layer", layer>>>>).cat
    /\ catalog' # catalog
    /\ UNCHANGED <<next_id, now, last, streak, callers, usage0, solver_vars, agent_vars>>

NextLineage ==
    \/ \E name \in DependencyNames : Lineage(name)
    \/ \E name \in DependencyNames, layer \in LayerValues : UpdateLayer(name, layer)

SpecLineage == InitLineage /\ [][NextLineage]_vars

----------------------------------------------------------------------------
(* SpecSearch: embed_view, update_view and clear_cache on one SemanticSearch *)

SearchNames == {"v_a", "v_b"}
Descriptions == {"monthly fraud trend", "chargebacks by merchant"}
TagLists == {<<>>, <<"monthly">>}
BaseTableLists == {{"transactions"}, {"transactions", "merchants"}}

SearchRow(id, name, description, tags, base_tables) ==
    [view_id |-> id, view_name |-> name, layer |-> 1, domain |-> "fraud",
     status |-> "DRAFT", usage_count |-> 0, last_used |-> NoDate, promoted_date |-> NoDate,
     base_tables |-> base_tables, depends_on_views |-> {}, used_by_views |-> {},
     description |-> description, tags |-> tags]

TextValues(col) ==
    CASE col = "description" -> Descriptions
      [] col = "tags" -> TagLists
      [] col = "base_tables" -> BaseTableLists

InitSearch ==
    /\ catalog = {SearchRow(1, "v_a", "monthly fraud trend", <<>>, {"transactions"}),
                  SearchRow(2, "v_b", "", <<"monthly">>, {})}
    /\ next_id = 3
    /\ now = 0
    /\ last = [op |-> "init", name |-> "none", ret |-> "none"]
    /\ streak = [n \in ViewNames |-> -1]
    /\ callers = [c \in Callers |-> IdleCaller]
    /\ usage0 = [n \in ViewNames |-> 0]
    /\ NoSolver
    /\ NoAgent

Recorded(op, a, b, out) ==
    result' = [op |-> op, a |-> a, b |-> b, use_views |-> FALSE, out |-> out]

\* embed_view(view) on the view the caller read from the catalog, as search,
\* find_similar_views and index_all_views call it.
EmbedView(name) ==
    LET found == find_by_name(catalog, name) IN
    /\ found.kind = "Row"
    /\ LET e == embed_view(embeddings_cache, model, TheRow(found)) IN
        /\ embeddings_cache' = e.cache
        /\ model' = e.model
        /\ Recorded("embed_view", {name}, {},
                    [kind |-> "Embedding", embedding |-> e.embedding, encoded |-> e.encoded])
    /\ UNCHANGED <<catalog_vars, schema_graph, unified_graph, client, state>>

UpdateText(name, col, val) ==
    LET res == update_view(catalog, name, <<<<col, val>>>>) IN
    /\ catalog' = res.cat
    /\ Recorded("update_view", {name}, {col}, [kind |-> res.ret])
    /\ UNCHANGED <<next_id, now, last, streak, callers, usage0, schema_graph,
                   unified_graph, agent_vars>>

ClearCache ==
    /\ embeddings_cache' = clear_cache(embeddings_cache)
    /\ Recorded("clear_cache", {}, {}, [kind |-> "None"])
    /\ UNCHANGED <<catalog_vars, schema_graph, unified_graph, model, client, state>>

NextSearch ==
    \/ \E name \in SearchNames : EmbedView(name)
    \/ \E col \in {"description", "tags", "base_tables"} :
          \E val \in TextValues(col) : UpdateText("v_a", col, val)
    \/ ClearCache

SpecSearch == InitSearch /\ [][NextSearch]_vars

----------------------------------------------------------------------------
(* SpecLoad: several callers in their first embed_text call on one          *)
(* SemanticSearch, one step per statement of _load_model and embed_text     *)

Texts == {"fraud", "merchants"}

FirstCaller(text) == [pc |-> "check", text |-> text, used |-> 0]

InitLoad ==
    /\ catalog = {}
    /\ next_id = 1
    /\ now = 0
    /\ last = [op |-> "init", name |-> "none", ret |-> "none"]
    /\ streak = [n \in ViewNames |-> -1]
    /\ callers \in [Callers -> {FirstCaller(t) : t \in Texts}]
    /\ usage0 = [n \in ViewNames |-> 0]
    /\ NoSolver
    /\ NoAgent

load_frame == <<catalog, next_id, now, last, streak, usage0, solver_vars,
                embeddings_cache, client, state>>

\* if self.model is None:
CheckModel(c) ==
    /\ callers[c].pc = "check"
    /\ callers' = [callers EXCEPT ![c].pc = IF model = 0 THEN "load" ELSE "encode"]
    /\ UNCHANGED <<model, load_frame>>

\* self.model = SentenceTransformer(self.model_name): one more model loaded
LoadModel(c) ==
    /\ callers[c].pc = "load"
    /\ model' = model + 1
    /\ callers' = [callers EXCEPT ![c].pc = "encode"]
    /\ UNCHANGED load_frame

\* embedding = self.model.encode(text)
Encode(c) ==
    /\ callers[c].pc = "encode"
    /\ callers' = [callers EXCEPT ![c].pc = "done", ![c].used = model]
    /\ UNCHANGED <<model, load_frame>>

NextLoad == \E c \in Callers : CheckModel(c) \/ LoadModel(c) \/ Encode(c)

SpecLoad == InitLoad /\ [][NextLoad]_vars

----------------------------------------------------------------------------
(* SpecIntegration: a schema graph, a catalog, views archived, and then one *)
(* call of the recommendation operations of ViewIntegration, the solver and *)
(* SemanticSearch                                                           *)

IntegrationNames == {"v_merchant_risk_profile", "v_channel_mix"}
UsageCounts == {0, 400}
SimScores == {100, 800, 1000}      \* cosine similarities 0.1, 0.8 and 1.0
Similarities(cat) == [{v.view_name : v \in cat} -> SimScores]
Thresholds == {2, 3}               \* complexity_threshold, 3 by default

IntegrationRow(id, name, status, usage_count, base_tables) ==
    [view_id |-> id, view_name |-> name, layer |-> 1, domain |-> "fraud",
     status |-> status, usage_count |-> usage_count, last_used |-> NoDate,
     promoted_date |-> NoDate, base_tables |-> base_tables, depends_on_views |-> {},
     used_by_views |-> {}, description |-> "merchant risk", tags |-> <<>>]

IntegrationCatalogs ==
    {a \cup b :
        a \in {{IntegrationRow(1, "v_merchant_risk_profile",
                               IF u < PromoteThreshold THEN "DRAFT" ELSE "PROMOTED", u,
                               {"transactions", "merchants", "mcc_codes"})} :
                  u \in UsageCounts},
        b \in {{}, {IntegrationRow(2, "v_channel_mix", "DRAFT", 0, {"channels"})}}}

IntegrationDatabases ==
    {db \in Databases :
        /\ \A t \in Tables : db.row_count[t] > 0
        /\ db.foreign_keys \in
              {ForeignKeys,
               {<<"transactions", "merchants">>, <<"transactions", "channels">>,
                <<"merchants", "mcc_codes">>},
               {<<"transactions", "merchants">>, <<"channels", "mcc_codes">>}}}

InitIntegration ==
    /\ catalog \in IntegrationCatalogs
    /\ \E db \in IntegrationDatabases : schema_graph = build_from_database(db)
    /\ unified_graph = NoGraph
    /\ result = NoResult
    /\ next_id = 3
    /\ now = 0
    /\ last = [op |-> "init", name |-> "none", ret |-> "none"]
    /\ streak = [n \in ViewNames |-> -1]
    /\ callers = [c \in Callers |-> IdleCaller]
    /\ usage0 = [n \in ViewNames |-> 0]
    /\ NoAgent

\* archive(name) before the recommendation call
Archive(name) ==
    /\ Idle
    /\ catalog' = delete_view(catalog, name).cat
    /\ catalog' # catalog
    /\ UNCHANGED <<next_id, now, last, streak, callers, usage0, solver_vars, agent_vars>>

Offered(views) == {[view_name |-> v.view_name, status |-> v.status] : v \in views}

RecommendViews(terminal_tables) ==
    /\ Called("recommend_views", terminal_tables, {}, FALSE,
              [kind |-> "Views",
               views |-> Offered(recommend_views(catalog, terminal_tables, 3))])
    /\ UNCHANGED <<schema_graph, unified_graph, catalog_vars, agent_vars>>

SearchByTables(table_names) ==
    /\ Called("search_by_tables", table_names, {}, FALSE,
              [kind |-> "Views",
               views |-> Offered(search_by_tables(catalog, table_names, 5))])
    /\ UNCHANGED <<schema_graph, unified_graph, catalog_vars, agent_vars>>

\* What suggest_views_for_query leaves in the SemanticSearch object.
Searched(terminal_tables) ==
    /\ model' = load_model(model)
    /\ embeddings_cache' = embed_views(embeddings_cache,
                                       EmbeddedViews(catalog, terminal_tables))

\* find_optimal_views(query, terminal_tables): the query counts by the
\* similarity the embedding model gives it to each view.
FindOptimalViews(terminal_tables) ==
    /\ Idle
    /\ \E similarity \in Similarities(catalog) :
       \E o \in find_optimal_views(schema_graph, catalog, unified_graph, similarity,
                                   terminal_tables) :
        /\ Called("find_optimal_views", terminal_tables, {}, TRUE,
                  [kind |-> o.kind,
                   views |-> Offered({r.view : r \in o.recommended_views})])
        /\ unified_graph' = o.unified_graph
    /\ Searched(terminal_tables)
    /\ UNCHANGED <<schema_graph, catalog_vars, client, state>>

ShouldCreateView(terminal_tables, complexity_threshold) ==
    /\ Idle
    /\ \E similarity \in Similarities(catalog) :
       \E o \in should_create_view(schema_graph, catalog, unified_graph, similarity,
                                   terminal_tables, complexity_threshold) :
        /\ Called("should_create_view", terminal_tables, {}, TRUE,
                  [kind |-> o.out.kind, decision |-> o.out, searched |-> o.searched,
                   solved |-> o.solved, similarity |-> similarity,
                   complexity_threshold |-> complexity_threshold])
        /\ unified_graph' = o.unified_graph
        /\ IF o.searched THEN Searched(terminal_tables)
           ELSE UNCHANGED <<model, embeddings_cache>>
    /\ UNCHANGED <<schema_graph, catalog_vars, client, state>>

NextIntegration ==
    \/ \E name \in IntegrationNames : Archive(name)
    \/ \E T \in TerminalLists : RecommendViews(T)
    \/ \E T \in TerminalLists : SearchByTables(T)
    \/ \E T \in TerminalLists : FindOptimalViews(T)
    \/ \E T \in TerminalLists, thr \in Thresholds : ShouldCreateView(T, thr)

SpecIntegration == InitIntegration /\ [][NextIntegration]_vars

----------------------------------------------------------------------------
(* SpecNames: views registered and archived under names built from parts,   *)
(* and suggest_view_name called on the catalog                              *)

NameDomains == {<<"fraud">>}
NameConcepts == {<<"trend">>, <<"merchant", "patterns">>}
Granularities == {<<>>, <<"monthly">>, <<"1">>}

\* The names callers register: a suggested base name, with or without a
\* numbered suffix.
RegisteredNameInputs ==
    {<<"v", "fraud", "trend">>, <<"v", "fraud", "trend", "1">>,
     <<"v", "fraud", "trend", "2">>, <<"v", "fraud", "trend", "monthly">>}

\* validate_view_name: the name starts with 'v_'
validate_view_name(v) == Len(v) >= 2 /\ Head(v) = "v"

NamedView(name) ==
    [view_name |-> name, layer |-> 1, domain |-> "fraud", status |-> "DRAFT",
     usage_count |-> 0]

InitNames ==
    /\ catalog = {}
    /\ next_id = 1
    /\ now = 0
    /\ last = [op |-> "init", name |-> "none", ret |-> "none"]
    /\ streak = [n \in ViewNames |-> -1]
    /\ callers = [c \in Callers |-> IdleCaller]
    /\ usage0 = [n \in ViewNames |-> 0]
    /\ NoSolver
    /\ NoAgent

names_frame == <<now, last, streak, callers, usage0, schema_graph, unified_graph,
                 agent_vars>>

RegisterNamed(name) ==
    LET res == register_view(catalog, next_id, NamedView(name), now) IN
    /\ validate_view_name(name)
    /\ catalog' = res.cat
    /\ next_id' = IF res.cat # catalog THEN next_id + 1 ELSE next_id
    /\ Recorded("register_view", {name}, {}, [kind |-> res.ret])
    /\ UNCHANGED names_frame

ArchiveNamed(name) ==
    LET res == delete_view(catalog, name) IN
    /\ catalog' = res.cat
    /\ Recorded("delete_view", {name}, {}, [kind |-> res.ret])
    /\ UNCHANGED <<next_id, names_frame>>

SuggestViewName(domain, concept, granularity) ==
    LET res == suggest_view_name(catalog, domain, concept, granularity) IN
    /\ Recorded("suggest_view_name", {<<domain, concept, granularity>>}, {},
                [kind |-> "Name", view_name |-> res.view_name, lookups |-> res.lookups])
    /\ UNCHANGED <<catalog, next_id, names_frame>>

NextNames ==
    \/ \E name \in RegisteredNameInputs : RegisterNamed(name)
    \/ \E name \in RegisteredNameInputs : ArchiveNamed(name)
    \/ \E domain \in NameDomains, concept \in NameConcepts, granularity \in Granularities :
          SuggestViewName(domain, concept, granularity)

SpecNames == InitNames /\ [][NextNames]_vars

----------------------------------------------------------------------------
(* Properties *)

Registered(cat, name) == RowsNamed(cat, name) # {}

RowOf(cat, name) == FirstRow(RowsNamed(cat, name))

Operations == {"register_view", "find_by_name", "get_view_lineage", "increment_usage",
               "promote_view", "update_view", "delete_view"}

\* A step of Spec that is the call op(name): every call records itself in last
\* and leaves the clock alone, and the clock's step leaves last alone.
StepOf(op, name) == last'.op = op /\ last'.name = name /\ now' = now

AllDone == \A c \in Callers : callers[c].pc = "done"

\* C1: starting from a registered DRAFT view with usage_count 0, after k
\* successful increment_usage calls in a row the usage_count is k and the status
\* is DRAFT for k = 0, 1, 2 and PROMOTED for every k >= 3.
C1_PromotedAtThirdIncrement ==
    \A n \in ViewNames :
        streak[n] >= 0 =>
            /\ Registered(catalog, n)
            /\ RowOf(catalog, n).usage_count = streak[n]
            /\ RowOf(catalog, n).status = IF streak[n] < 3 THEN "DRAFT" ELSE "PROMOTED"

C1_Witness ==
    /\ streak["v_a"] = 4
    /\ last = [op |-> "increment_usage", name |-> "v_a", ret |-> "True"]
    /\ RowOf(catalog, "v_a").status = "PROMOTED"

IncrementsDone(n) ==
    {c \in Callers : /\ callers[c].pc = "done"
                     /\ callers[c].op = "increment_usage"
                     /\ callers[c].name = n
                     /\ callers[c].ret = "True"}

PromotionsApplied(n) ==
    {c \in Callers : callers[c].name = n /\ callers[c].promote = "applied"}

\* C2: concurrent increment_usage calls on a DRAFT view: once all calls have
\* returned, usage_count is the initial count plus the number of calls that
\* returned True; at most one caller's promote UPDATE changes the row; and once
\* all calls have returned with usage_count >= 3 the status is PROMOTED.
C2_ConcurrentIncrements ==
    \A n \in ConcNames :
        /\ Cardinality(PromotionsApplied(n)) <= 1
        /\ (AllDone /\ Registered(catalog, n)) =>
              /\ RowOf(catalog, n).usage_count = usage0[n] + Cardinality(IncrementsDone(n))
              /\ RowOf(catalog, n).usage_count >= 3 => RowOf(catalog, n).status = "PROMOTED"

\* Two callers both read a DRAFT row at the threshold and both issue the promote
\* UPDATE: one changes the row, the other finds no DRAFT row.
C2_Witness ==
    /\ AllDone
    /\ \E c, d \in Callers :
          /\ callers[c].name = "v_a" /\ callers[c].promote = "applied"
          /\ callers[d].name = "v_a" /\ callers[d].promote = "noop"
    /\ RowOf(catalog, "v_a").status = "PROMOTED"

\* C3 (as claimed): the status of a row changes only from DRAFT to PROMOTED or
\* from anything to ARCHIVED.
C3_OnlyLifecycleTransitions ==
    [][\A r \in catalog : \A q \in catalog' :
          (q.view_id = r.view_id /\ q.status # r.status) =>
              \/ (r.status = "DRAFT" /\ q.status = "PROMOTED")
              \/ q.status = "ARCHIVED"]_vars

RegistrationsDone(n) ==
    {c \in Callers : /\ callers[c].pc = "done"
                     /\ callers[c].op = "register_view"
                     /\ callers[c].name = n
                     /\ callers[c].ret = "Row"}

\* C5: in every interleaving of register_view calls no two rows have the same
\* view_name, and of the concurrent registrations of one name at most one
\* returns the registered view.
C5_UniqueViewNames ==
    /\ \A r, q \in catalog : r.view_name = q.view_name => r = q
    /\ \A n \in ConcNames : Cardinality(RegistrationsDone(n)) <= 1

\* Two callers passed the existence check for the same name; one INSERT went
\* through and the other was refused by the table's unique key.
C5_Witness ==
    \E c, d \in Callers :
        /\ callers[c].op = "register_view" /\ callers[d].op = "register_view"
        /\ callers[c].name = callers[d].name
        /\ callers[c].ret = "Row" /\ callers[d].ret = "IntegrityError"

\* C6 (as claimed): usage_count is never negative and never decreases.
C6_UsageMonotonic ==
    [][/\ \A q \in catalog' : q.usage_count >= 0
       /\ \A r \in catalog : \A q \in catalog' :
             q.view_id = r.view_id => q.usage_count >= r.usage_count]_vars

C8_StoredRowsValid ==
    /\ \A r \in catalog :
          r.layer \in {1, 2, 3} /\ r.domain \in allowed_domains /\ r.status \in allowed_statuses
    /\ \A n \in ViewNames : Registered(catalog, n) => find_by_name(catalog, n).kind = "Row"

\* C9: promote_view on an unknown name or on a row that is not DRAFT returns
\* False and changes nothing; on a DRAFT row it sets PROMOTED, and a second
\* promote_view right after leaves the table as the first one left it.
C9_PromoteOnlyDraft ==
    [][\A n \in ViewNames :
          StepOf("promote_view", n) =>
              IF Registered(catalog, n) /\ RowOf(catalog, n).status = "DRAFT"
              THEN /\ last'.ret = "True"
                   /\ RowOf(catalog', n).status = "PROMOTED"
                   /\ promote_view(catalog', n, now').cat = catalog'
                   /\ promote_view(catalog', n, now').ret = "False"
              ELSE /\ last'.ret = "False"
                   /\ catalog' = catalog]_vars

C9_Witness ==
    /\ last = [op |-> "promote_view", name |-> "v_a", ret |-> "False"]
    /\ Registered(catalog, "v_a")
    /\ RowOf(catalog, "v_a").status = "ARCHIVED"
    /\ RowOf(catalog, "v_a").promoted_date # NoDate
    /\ RowOf(catalog, "v_a").promoted_date < now

\* C10: on a name that is not registered find_by_name returns None,
\* get_view_lineage returns {}, and increment_usage, promote_view, update_view
\* and delete_view return False; none of them raises or changes the table.
C10_UnknownNameIsNoOp ==
    [][\A n \in ViewNames :
          ~Registered(catalog, n) =>
              /\ StepOf("find_by_name", n) => last'.ret = "None"
              /\ StepOf("get_view_lineage", n) => last'.ret = "EmptyDict"
              /\ \A op \in {"increment_usage", "promote_view", "update_view", "delete_view"} :
                    StepOf(op, n) => last'.ret = "False"
              /\ \A op \in Operations \ {"register_view"} :
                    StepOf(op, n) => catalog' = catalog]_vars

C10_Witness ==
    /\ last = [op |-> "update_view", name |-> "v_c", ret |-> "False"]
    /\ Registered(catalog, "v_a")
    /\ Registered(catalog, "v_b")
    /\ ~Registered(catalog, "v_c")

----------------------------------------------------------------------------
(* Properties of the solver and the schema graph *)

\* The graph a recorded solve call worked on before any restriction.
WorkingGraph ==
    IF result.use_views THEN build_unified_graph(schema_graph, catalog).graph
    ELSE to_undirected(schema_graph)

\* A recorded solve call that returned, on two or more known terminals.
Solved ==
    /\ result.op = "solve"
    /\ result.out.kind = "Solution"
    /\ Cardinality(result.a) >= 2

TerminalsIn(c) == Cardinality(c \cap result.a)

\* C11: on a disconnected working graph solve keeps the component that holds
\* the most requested terminals, drops exactly the terminals outside it, and
\* returns the empty result only when no terminal remains.
C11_MostTerminalsComponent ==
    (Solved /\ ~is_connected(WorkingGraph)) =>
        \E c \in connected_components(WorkingGraph) :
            /\ \A d \in connected_components(WorkingGraph) : TerminalsIn(d) <= TerminalsIn(c)
            /\ result.out.terminal_tables = result.a \cap c
            /\ (result.out.nodes = {} => result.a \cap c = {})

\* The returned subgraph as a graph of its own.
ReturnedGraph ==
    [nodes |-> result.out.nodes, views |-> result.out.views_used,
     weight |-> [e \in result.out.edges |-> 0]]

IsTree(G) ==
    /\ G.nodes # {}
    /\ is_connected(G)
    /\ Cardinality(Edges(G)) = Cardinality(G.nodes) - 1

\* C12: when the two or more requested terminals lie in one connected
\* component of the working graph, the returned subgraph is connected, acyclic
\* and contains every requested terminal.
C12_ResultIsTree ==
    (Solved /\ \E c \in connected_components(WorkingGraph) : result.a \subseteq c) =>
        /\ IsTree(ReturnedGraph)
        /\ result.a \subseteq result.out.nodes

\* C13: compare_solutions never reports a with-views cost above its
\* without-views cost: cost_reduction >= 0.
C13_ViewsNeverCostMore ==
    (result.op = "compare_solutions" /\ result.out.kind = "Comparison") =>
        /\ result.out.cost_with <= result.out.cost_without
        /\ result.out.cost_reduction >= 0

UsableStatuses == {"PROMOTED", "MATERIALIZED"}

UsableViews == {v.view_name : v \in {r \in catalog : r.status \in UsableStatuses}}

\* C14: a view node of the unified graph is a PROMOTED or MATERIALIZED view of
\* the catalog and has a zero-weight edge to each of its base tables that is a
\* table of the schema graph; views_used names only such views and is empty
\* when solve runs with use_views = false.
C14_OnlyUsableViews ==
    /\ \A n \in unified_graph.views :
          \E v \in catalog :
              /\ v.view_name = n
              /\ v.status \in UsableStatuses
              /\ \A t \in v.base_tables \cap schema_graph.nodes :
                    /\ {n, t} \in Edges(unified_graph)
                    /\ unified_graph.weight[{n, t}] = 0
    /\ (result.op = "solve" /\ result.out.kind = "Solution") =>
          /\ result.out.views_used \subseteq UsableViews
          /\ (~result.use_views => result.out.views_used = {})

C14_Witness ==
    /\ result.op = "solve"
    /\ result.use_views
    /\ result.out.views_used = {"v_merchant_risk_profile"}
    /\ "v_transaction_audit" \in unified_graph.views
    /\ \E v \in catalog : v.view_name = "v_transaction_audit" /\ UnknownTable \in v.base_tables

\* C14 as stated: every view node is joined to each of its base tables.
C14_JoinedToEveryBaseTable ==
    /\ \A n \in unified_graph.views :
          \E v \in catalog :
              /\ v.view_name = n
              /\ v.status \in UsableStatuses
              /\ \A t \in v.base_tables :
                    /\ {n, t} \in Edges(unified_graph)
                    /\ unified_graph.weight[{n, t}] = 0
    /\ (result.op = "solve" /\ result.out.kind = "Solution") =>
          /\ result.out.views_used \subseteq UsableViews
          /\ (~result.use_views => result.out.views_used = {})

C16_UnknownTerminalRaises ==
    [][(result'.op = "solve" /\ ~(result'.a \subseteq schema_graph.nodes)) =>
          /\ result'.out.kind = "ValueError"
          /\ unified_graph' = unified_graph]_vars

C16_Witness ==
    /\ result.op = "solve"
    /\ result.use_views
    /\ result.a = {UnknownTable}
    /\ result.out.kind = "ValueError"
    /\ unified_graph # NoGraph

GraphOperations == {"get_table_info", "get_shortest_path", "get_connected_tables",
                    "calculate_join_cost"}

\* C17: a schema-graph operation called with a table name that is not in the
\* graph fails instead of returning a value.
C17_UnknownTableFails ==
    (result.op \in GraphOperations /\ ~((result.a \cup result.b) \subseteq schema_graph.nodes)) =>
        result.out.kind \in {"ValueError", "NodeNotFound"}

\* The weight of a lightest edge set of G that connects the terminals T.
MinSteinerCost(G, T) ==
    LET root == CHOOSE t \in T : TRUE
        connecting == {S \in SUBSET Edges(G) :
                          T \subseteq Reach([nodes |-> G.nodes, weight |-> [e \in S |-> 0]],
                                            {root})}
    IN SetMin({SumWeights(G, S) : S \in connecting})

ReturnedWeight == SumWeights(WorkingGraph, result.out.edges)

ExampleSchema ==
    build_from_database(
        [row_count |-> [t \in Tables |-> 1],
         foreign_keys |-> {<<"transactions", "merchants">>, <<"transactions", "channels">>,
                           <<"merchants", "mcc_codes">>}])

\* C19: on the example schema solve([transactions, mcc_codes]) without views
\* uses transactions, merchants and mcc_codes at cost 2.0, and with the
\* PROMOTED view v_merchant_risk_profile over those three tables it uses that
\* view at cost 0.0.
C19_WorkedExample ==
    (schema_graph = ExampleSchema /\ result.op = "solve"
        /\ result.a = {"transactions", "mcc_codes"}) =>
        /\ ~result.use_views =>
              /\ result.out.tables_used = {"transactions", "merchants", "mcc_codes"}
              /\ result.out.total_cost = 2 * RoundUnits
        /\ (result.use_views /\ \E v \in catalog : /\ v.view_name = "v_merchant_risk_profile"
                                                   /\ v.status = "PROMOTED") =>
              /\ result.out.views_used = {"v_merchant_risk_profile"}
              /\ result.out.total_cost = 0

C19_Witness ==
    /\ schema_graph = ExampleSchema
    /\ result.op = "solve"
    /\ result.use_views
    /\ result.a = {"transactions", "mcc_codes"}
    /\ result.out.views_used = {"v_merchant_risk_profile"}
    /\ result.out.total_cost = 0

----------------------------------------------------------------------------
(* Properties of lineage *)

RegisteredNames == {r.view_name : r \in catalog}

Dependencies(name) == RowOf(catalog, name).depends_on_views \cap RegisteredNames

\* The chains of registered views that start with path, each view depending
\* on the next, followed until a view comes back that is already on the chain.
RECURSIVE Chains(_)
Chains(path) ==
    LET cur == path[Len(path)]
        seen == {path[i] : i \in 1..(Len(path) - 1)}
    IN
    IF cur \in seen THEN {path}
    ELSE {path} \cup UNION {Chains(Append(path, d)) : d \in Dependencies(cur)}

Acyclic == \A n \in RegisteredNames : \A p \in Chains(<<n>>) :
               \A i, j \in DOMAIN p : i # j => p[i] # p[j]

\* C20: lineage(name) never raises, whatever the catalog holds; its
\* total_depth is the number of edges of the longest depends_on chain from the
\* view over registered views, a chain ending where it comes back to a view
\* already on it (so, without cycles, the longest chain).
C20_LineageNeverRaises ==
    result.op = "get_view_lineage" =>
        LET name == CHOOSE n \in result.a : TRUE IN
        /\ result.out.kind \in {"EmptyDict", "Lineage"}
        /\ result.out.kind = "EmptyDict" <=> name \notin RegisteredNames
        /\ result.out.kind = "Lineage" =>
              result.out.total_depth = SetMax({Len(p) - 1 : p \in Chains(<<name>>)})

----------------------------------------------------------------------------
(* Properties of semantic search *)

CachedNames == DOMAIN embeddings_cache

\* C21: embed_view for a cached name returns the cached vector without
\* calling the embedding model, whatever update_view did to the row since;
\* an entry leaves the cache or changes only in clear_cache; for a name that
\* is not cached embed_view encodes the row's current text and caches it.
C21_CachedEmbeddingReturned ==
    [][/\ \A n \in CachedNames :
            /\ result'.op # "clear_cache" =>
                  /\ n \in DOMAIN embeddings_cache'
                  /\ embeddings_cache'[n] = embeddings_cache[n]
            /\ (result'.op = "embed_view" /\ result'.a = {n}) =>
                  /\ result'.out.embedding = embeddings_cache[n]
                  /\ ~result'.out.encoded
       /\ \A n \in SearchNames \ CachedNames :
            (result'.op = "embed_view" /\ result'.a = {n}) =>
                  /\ result'.out.encoded
                  /\ result'.out.embedding = encode(composite_text(RowOf(catalog, n)))
                  /\ embeddings_cache'[n] = result'.out.embedding
       /\ result'.op = "clear_cache" => embeddings_cache' = EmptyCache]_vars

C21_Witness ==
    /\ result.op = "embed_view"
    /\ result.a = {"v_a"}
    /\ ~result.out.encoded
    /\ result.out.embedding # encode(composite_text(RowOf(catalog, "v_a")))

\* C22: the embedding model is loaded at most once and every caller encodes
\* with that one model.
C22_ModelLoadedOnce ==
    /\ model <= 1
    /\ \A c \in Callers : callers[c].pc = "done" => callers[c].used = 1

----------------------------------------------------------------------------
(* Properties of view integration *)

DecisionMade ==
    /\ result.op = "should_create_view"
    /\ result.a \subseteq schema_graph.nodes

\* The combined scores of the candidates of the recorded should_create_view call.
CandidateScores ==
    {r.combined_score : r \in ranked_views(catalog, result.out.similarity, result.a)}

Covered == \E s \in CandidateScores : 10 * s > 7 * ScoreUnits

C29_ArchivedNeverOffered ==
    /\ (result.op \in {"recommend_views", "search_by_tables", "find_optimal_views"}
          /\ result.out.kind = "Views") =>
          \A v \in result.out.views : v.status # "ARCHIVED"
    /\ (result.op = "should_create_view" /\ result.out.kind = "Decision") =>
          result.out.decision.existing_view.status # "ARCHIVED"

\* C30: the confidence of every should_create_view decision lies in [0, 1].
C30_ConfidenceInUnitInterval ==
    (result.op = "should_create_view" /\ result.out.kind = "Decision") =>
        /\ result.out.decision.confidence >= 0
        /\ result.out.decision.confidence <= ScoreUnits

\* The name v_{domain}_{concept}[_{granularity}] of the arguments of a
\* suggest_view_name call, in pieces.
BaseName(args) == <<"v">> \o args[1] \o args[2] \o args[3]

NumberedName(base, k) == base \o <<ToString(k)>>

\* C24: suggest_view_name leaves the catalog as it is and returns the base
\* name when no view has it, otherwise the base name with the smallest
\* number k >= 1 whose name no view has; the name returned is never one of
\* the catalog, and it is found within one lookup per stored view and one
\* more (so the same catalog and arguments always give the same name).
C24_SuggestedNameIsFree ==
    [][result'.op = "suggest_view_name" =>
          LET base == BaseName(CHOOSE args \in result'.a : TRUE)
              taken == {r.view_name : r \in catalog}
              suggested == result'.out.view_name
          IN  /\ catalog' = catalog
              /\ suggested \notin taken
              /\ base \notin taken => suggested = base
              /\ base \in taken =>
                    \E k \in 1..Cardinality(taken) :
                        /\ suggested = NumberedName(base, k)
                        /\ \A j \in 1..(k - 1) : NumberedName(base, j) \in taken
              /\ result'.out.lookups <= Cardinality(catalog) + 1]_vars

C24_Witness ==
    /\ result.op = "suggest_view_name"
    /\ result.out.view_name = <<"v", "fraud", "trend", "2">>
    /\ result.out.lookups = 3
    /\ \E r \in catalog : r.view_name = <<"v", "fraud", "trend">> /\ r.status = "ARCHIVED"


----------------------------------------------------------------------------
(* Join cost (src/src/graph/schema_graph.py)                               *)

JoinCostCalled == result.op = "calculate_join_cost"

Table1 == CHOOSE t \in result.a : TRUE
Table2 == CHOOSE t \in result.b : TRUE

Adjacent(g, a, b) == <<a, b>> \in DOMAIN g.weight \/ <<b, a>> \in DOMAIN g.weight

DirectWeight(g, a, b) ==
    IF <<a, b>> \in DOMAIN g.weight THEN g.weight[<<a, b>>] ELSE g.weight[<<b, a>>]

\* The sums of the edge weights along the paths of fewest edges from a to b.
ShortestPathSums(g, a, b) ==
    LET G == to_undirected(g)
        ps == ExtendPaths(G, <<a>>, b)
    IN {SumWeights(G, PathEdges(p)) : p \in {q \in ps : \A r \in ps : Len(q) <= Len(r)}}

\* C25: calculate_join_cost(a, b) on tables of the graph is the weight of the
\* foreign-key edge between them when there is one in either direction,
\* otherwise the sum of the edge weights along a shortest path between them
\* in the undirected graph, and infinity when no path joins them; and
\* calculate_join_cost(b, a) gives the same result.
C25_JoinCostSymmetric ==
    (JoinCostCalled /\ Table1 \in schema_graph.nodes /\ Table2 \in schema_graph.nodes) =>
        /\ Adjacent(schema_graph, Table1, Table2) =>
              result.out = [kind |-> "Cost",
                            cost |-> DirectWeight(schema_graph, Table1, Table2)]
        /\ (~Adjacent(schema_graph, Table1, Table2)
              /\ Table2 \in Reach(to_undirected(schema_graph), {Table1})) =>
              /\ result.out.kind = "Cost"
              /\ result.out.cost \in ShortestPathSums(schema_graph, Table1, Table2)
        /\ Table2 \notin Reach(to_undirected(schema_graph), {Table1}) =>
              result.out.kind = "inf"
        /\ \A o \in calculate_join_cost(schema_graph, Table2, Table1) : o = result.out


----------------------------------------------------------------------------
(* Claude API client (src/src/agents/llm_client.py)                        *)
(*                                                                         *)
(* client is the ClaudeClient together with the frame of the               *)
(* chat_completion call in progress: attempt, the outcomes of the API      *)
(* calls made so far (events), the time.sleep arguments (sleeps), and the  *)
(* counters as they were when the call began (before).  total_cost is      *)
(* exact, kept as a count of 1/CostUnits dollars.                          *)

CostUnits == 1000000    \* 0.003 / 1000 dollars per input token is 3 units
MaxRetries == 3         \* max_retries arguments range over 0..MaxRetries
MaxCompletions == 2     \* chat_completion calls made on one client

RetryDelays == {1, 2}

NoUsage == [input_tokens |-> -1, output_tokens |-> -1]

\* response.usage of a successful call, NoUsage for a response without one
Usages == {NoUsage, [input_tokens |-> 0, output_tokens |-> 0],
           [input_tokens |-> 1000, output_tokens |-> 200]}

counters(c) ==
    [total_input_tokens |-> c.total_input_tokens,
     total_output_tokens |-> c.total_output_tokens,
     total_cost |-> c.total_cost]

\* ClaudeClient.__init__
new_client ==
    [pc |-> "idle", total_input_tokens |-> 0, total_output_tokens |-> 0,
     total_cost |-> 0, max_retries |-> 0, retry_delay |-> 0, attempt |-> 0,
     events |-> <<>>, sleeps |-> <<>>, usage |-> NoUsage, outcome |-> "none",
     before |-> [total_input_tokens |-> 0, total_output_tokens |-> 0, total_cost |-> 0],
     completions |-> 0]

finished(c, outcome) ==
    [c EXCEPT !.pc = "done", !.outcome = outcome, !.completions = @ + 1]

\* while attempt < max_retries: ... ; raise RuntimeError
loop(c) ==
    IF c.attempt < c.max_retries THEN [c EXCEPT !.pc = "calling"]
    ELSE finished(c, "RuntimeError")

\* chat_completion up to its first API call
begin(c, max_retries, retry_delay) ==
    loop([c EXCEPT !.max_retries = max_retries, !.retry_delay = retry_delay,
                   !.attempt = 0, !.events = <<>>, !.sleeps = <<>>,
                   !.usage = NoUsage, !.outcome = "none", !.before = counters(c)])

call_cost(usage) == usage.input_tokens * 3 + usage.output_tokens * 15

\* self.client.messages.create returned: track usage and return
on_response(c, usage) ==
    LET d == [c EXCEPT !.events = Append(@, "ok"), !.usage = usage] IN
    finished(IF usage # NoUsage
             THEN [d EXCEPT !.total_input_tokens = @ + usage.input_tokens,
                            !.total_output_tokens = @ + usage.output_tokens,
                            !.total_cost = @ + call_cost(usage)]
             ELSE d,
             "returned")

\* Mutant: a rate-limit failure does not consume an attempt.
on_rate_limit_free(c) ==
    loop([c EXCEPT !.events = Append(@, "RateLimitError"),
                   !.sleeps = Append(@, c.retry_delay * (2 ^ c.attempt))])

\* except RateLimitError
on_rate_limit(c) ==
    loop([c EXCEPT !.events = Append(@, "RateLimitError"),
                   !.sleeps = Append(@, c.retry_delay * (2 ^ c.attempt)),
                   !.attempt = @ + 1])

\* except APIError
on_api_error(c) ==
    LET d == [c EXCEPT !.events = Append(@, "APIError")] IN
    IF c.attempt < c.max_retries - 1
    THEN loop([d EXCEPT !.sleeps = Append(@, c.retry_delay), !.attempt = @ + 1])
    ELSE finished(d, "APIError")

\* except Exception
on_exception(c) ==
    finished([c EXCEPT !.events = Append(@, "Exception")], "Exception")

----------------------------------------------------------------------------
(* SpecLLM: chat_completion calls on one client, one step per API call     *)

InitLLM ==
    /\ catalog = {}
    /\ next_id = 1
    /\ now = 0
    /\ last = [op |-> "init", name |-> "none", ret |-> "none"]
    /\ streak = [n \in ViewNames |-> -1]
    /\ callers = [c \in Callers |-> IdleCaller]
    /\ usage0 = [n \in ViewNames |-> 0]
    /\ NoSolver
    /\ embeddings_cache = EmptyCache
    /\ model = 0
    /\ state = NoState
    /\ client = new_client

llm_frame == <<catalog, next_id, now, last, streak, callers, usage0, solver_vars,
               embeddings_cache, model, state>>

Calling == client.pc = "calling"

ChatCompletion(max_retries, retry_delay) ==
    /\ client.pc \in {"idle", "done"}
    /\ client.completions < MaxCompletions
    /\ client' = begin(client, max_retries, retry_delay)
    /\ UNCHANGED llm_frame

Respond(usage) ==
    /\ Calling
    /\ client' = on_response(client, usage)
    /\ UNCHANGED llm_frame

RateLimited ==
    /\ Calling
    /\ client' = on_rate_limit(client)
    /\ UNCHANGED llm_frame

ApiErrored ==
    /\ Calling
    /\ client' = on_api_error(client)
    /\ UNCHANGED llm_frame

Unexpected ==
    /\ Calling
    /\ client' = on_exception(client)
    /\ UNCHANGED llm_frame

\* self.client.messages.create(**api_params) returns or raises
ApiCall ==
    \/ \E usage \in Usages : Respond(usage)
    \/ RateLimited
    \/ ApiErrored
    \/ Unexpected

NextLLM ==
    \/ \E mr \in 0..MaxRetries, rd \in RetryDelays : ChatCompletion(mr, rd)
    \/ \E usage \in Usages : Respond(usage)
    \/ RateLimited
    \/ ApiErrored
    \/ Unexpected

SpecLLM == InitLLM /\ [][NextLLM]_vars

\* Every API call made returns or raises, and every time.sleep returns.
FairSpecLLM == SpecLLM /\ WF_vars(ApiCall)

Failures == {"RateLimitError", "APIError"}

\* What the frame of a chat_completion call may look like.
RetryDiscipline ==
    client.pc \in {"calling", "done"} =>
        LET n == Len(client.events) IN
        /\ n <= client.max_retries
        \* every API call but the last one made has failed and was retried
        /\ \A i \in 1..(n - 1) : client.events[i] \in Failures
        \* each retried failure consumed one attempt and slept once
        /\ Len(client.sleeps) = client.attempt
        /\ \A i \in 1..Len(client.sleeps) :
              client.sleeps[i] = IF client.events[i] = "RateLimitError"
                                 THEN client.retry_delay * (2 ^ (i - 1))
                                 ELSE client.retry_delay
        /\ client.pc = "calling" =>
              /\ client.attempt = n
              /\ n < client.max_retries
              /\ n > 0 => client.events[n] \in Failures
              /\ counters(client) = client.before
        /\ client.outcome = "returned" =>
              /\ n >= 1 /\ client.events[n] = "ok"
              /\ counters(client) =
                    IF client.usage = NoUsage THEN client.before
                    ELSE [total_input_tokens |->
                              client.before.total_input_tokens + client.usage.input_tokens,
                          total_output_tokens |->
                              client.before.total_output_tokens + client.usage.output_tokens,
                          total_cost |->
                              client.before.total_cost + client.usage.input_tokens * 3
                                  + client.usage.output_tokens * 15]
        /\ client.outcome = "RuntimeError" =>
              /\ n = client.max_retries
              /\ \A i \in 1..n : client.events[i] \in Failures
              /\ n > 0 => client.events[n] = "RateLimitError"
              /\ counters(client) = client.before
        /\ client.outcome = "APIError" =>
              /\ n = client.max_retries
              /\ client.events[n] = "APIError"
              /\ counters(client) = client.before
        /\ client.outcome = "Exception" =>
              /\ client.events[n] = "Exception"
              /\ client.attempt = n - 1
              /\ counters(client) = client.before

\* C26: chat_completion makes at most max_retries API calls and ends: it
\* returns on the first successful response; a rate-limit failure consumes
\* an attempt and sleeps retry_delay * 2^attempt before the retry; after
\* max_retries failed attempts RuntimeError is raised; an APIError on the
\* last allowed attempt is re-raised; any other exception is raised at once;
\* the token and cost counters change only on a successful response, once.
C26_RetriesBoundedAndTerminate ==
    /\ []RetryDiscipline
    /\ Calling ~> (client.pc = "done")

\* A call that hit an API error, was then rate limited, and succeeded on its
\* third and last attempt, on a client that had tracked usage before.
C26_Witness ==
    /\ client.pc = "done"
    /\ client.outcome = "returned"
    /\ client.max_retries = 3
    /\ client.events = <<"APIError", "RateLimitError", "ok">>
    /\ client.sleeps = <<client.retry_delay, 2 * client.retry_delay>>
    /\ client.before.total_input_tokens > 0
    /\ client.total_input_tokens > client.before.total_input_tokens


----------------------------------------------------------------------------
(* Research workflow (src/src/orchestration/graph.py, state.py)            *)
(*                                                                         *)
(* state is the ResearchState of one run_research_workflow call together   *)
(* with the frame of the run: pc, the node the compiled graph runs next;   *)
(* steps, the values the nodes have given current_step; ret, the dict      *)
(* returned.  An Optional[str] is [none, text] with text the pieces of the *)
(* formatted string; an Optional[dict] result is [none, success, message,  *)
(* analysis].                                                              *)

None == [none |-> TRUE, text |-> <<>>]

\* an f-string: the pieces it is put together from
Str(pieces) == [none |-> FALSE, text |-> pieces]

\* bool(x) of an Optional[str]: None and '' are falsy
bool(x) == ~x.none /\ \E i \in DOMAIN x.text : x.text[i] # ""

NoDict == [none |-> TRUE, success |-> FALSE, message |-> "", analysis |-> ""]

Dict(success, message, analysis) ==
    [none |-> FALSE, success |-> success, message |-> message, analysis |-> analysis]

NoReturn == [returned |-> FALSE, success |-> FALSE, report |-> None, error |-> None]

\* create_initial_state, handed to app.invoke at the entry point
create_initial_state ==
    [pc |-> "start", steps |-> <<>>, ret |-> NoReturn,
     current_step |-> "START", error |-> None, final_report |-> None,
     explorer_result |-> NoDict, researcher_result |-> NoDict, analysis |-> None]

\* workflow.add_edge(...): the node that follows each node
edges ==
    [start |-> "explore", explore |-> "research", research |-> "report", report |-> "END"]

\* state['current_step'] = step at the head of a node
enter(s, step) == [s EXCEPT !.current_step = step, !.steps = Append(@, step)]

start_node(s) == enter(s, "START")

\* explore_node; o is what ExplorerAgent(...).process(...) did
explore_node(s, o) ==
    LET t == enter(s, "EXPLORE") IN
    IF o.kind = "raise"
    THEN [t EXCEPT !.error = Str(<<"Explorer error: ", o.message>>)]
    ELSE IF o.result.success
         THEN [t EXCEPT !.explorer_result = o.result]
         ELSE [t EXCEPT !.explorer_result = o.result,
                        !.error = Str(<<"Explorer failed: ", o.result.message>>)]

\* Mutant: a successful Researcher clears the error.
research_node_clearing(s, o) ==
    LET t == enter(s, "RESEARCH") IN
    IF o.kind = "raise"
    THEN [t EXCEPT !.error = Str(<<"Researcher error: ", o.message>>)]
    ELSE IF o.result.success
         THEN [t EXCEPT !.researcher_result = o.result,
                        !.analysis = Str(<<o.result.analysis>>),
                        !.error = None]
         ELSE [t EXCEPT !.researcher_result = o.result,
                        !.error = Str(<<"Researcher failed: ", o.result.message>>)]

\* research_node; o is what ResearcherAgent(...).process(...) did
research_node(s, o) ==
    LET t == enter(s, "RESEARCH") IN
    IF o.kind = "raise"
    THEN [t EXCEPT !.error = Str(<<"Researcher error: ", o.message>>)]
    ELSE IF o.result.success
         THEN [t EXCEPT !.researcher_result = o.result,
                        !.analysis = Str(<<o.result.analysis>>)]
         ELSE [t EXCEPT !.researcher_result = o.result,
                        !.error = Str(<<"Researcher failed: ", o.result.message>>)]

\* "\n".join(report_sections)
report_text(s) ==
    Str(<<"RESEARCH REPORT",
          IF bool(s.error) THEN "WARNING: Workflow encountered errors" ELSE "",
          IF ~s.explorer_result.none THEN "## EXPLORATION PHASE" ELSE "",
          IF ~s.researcher_result.none THEN "## ANALYSIS PHASE" ELSE "",
          IF ~s.researcher_result.none /\ bool(s.analysis) THEN s.analysis.text[1] ELSE "">>)

\* report_node; o is whether building the report raised
report_node(s, o) ==
    LET t == enter(s, "REPORT") IN
    IF o.kind = "raise"
    THEN [t EXCEPT !.error = Str(<<"Report generation error: ", o.message>>),
                   !.final_report = Str(<<"Error generating report: ", o.message>>)]
    ELSE [t EXCEPT !.final_report = report_text(t)]

\* the dict run_research_workflow returns after app.invoke
workflow_result(s) ==
    [returned |-> TRUE, success |-> ~bool(s.error),
     report |-> s.final_report, error |-> s.error]

----------------------------------------------------------------------------
(* SpecWorkflow: one run of the research workflow                          *)

Raises == {[kind |-> "raise", message |-> m, result |-> NoDict] :
              m \in {"", "no such table: transactions"}}

\* What an agent's process call does: a result dict or an exception.
ProcessOutcomes ==
    {[kind |-> "result", message |-> "", result |-> Dict(TRUE, "", a)] :
        a \in {"", "fraud is concentrated in two merchants"}}
    \cup {[kind |-> "result", message |-> "", result |-> Dict(FALSE, m, "")] :
             m \in {"Unknown error", "No relevant tables found"}}
    \cup Raises

ReportOutcomes == {[kind |-> "ok", message |-> "", result |-> NoDict]} \cup Raises

InitWorkflow ==
    /\ catalog = {}
    /\ next_id = 1
    /\ now = 0
    /\ last = [op |-> "init", name |-> "none", ret |-> "none"]
    /\ streak = [n \in ViewNames |-> -1]
    /\ callers = [c \in Callers |-> IdleCaller]
    /\ usage0 = [n \in ViewNames |-> 0]
    /\ NoSolver
    /\ embeddings_cache = EmptyCache
    /\ model = 0
    /\ client = NoClient
    /\ state = create_initial_state

workflow_frame == <<catalog, next_id, now, last, streak, callers, usage0, solver_vars,
                    embeddings_cache, model, client>>

StartNode ==
    /\ state.pc = "start"
    /\ state' = [start_node(state) EXCEPT !.pc = edges.start]
    /\ UNCHANGED workflow_frame

ExploreNode ==
    /\ state.pc = "explore"
    /\ \E o \in ProcessOutcomes :
          state' = [explore_node(state, o) EXCEPT !.pc = edges.explore]
    /\ UNCHANGED workflow_frame

ResearchNode ==
    /\ state.pc = "research"
    /\ \E o \in ProcessOutcomes :
          state' = [research_node(state, o) EXCEPT !.pc = edges.research]
    /\ UNCHANGED workflow_frame

ReportNode ==
    /\ state.pc = "report"
    /\ \E o \in ReportOutcomes :
          state' = [report_node(state, o) EXCEPT !.pc = edges.report]
    /\ UNCHANGED workflow_frame

\* app.invoke returned the final state
Return ==
    /\ state.pc = "END"
    /\ state' = [state EXCEPT !.pc = "returned", !.ret = workflow_result(state)]
    /\ UNCHANGED workflow_frame

NextWorkflow ==
    \/ StartNode
    \/ ExploreNode
    \/ ResearchNode
    \/ ReportNode
    \/ Return

SpecWorkflow == InitWorkflow /\ [][NextWorkflow]_vars

\* app.invoke runs the node after each node that returned, and each node
\* returns: the agents' calls come back with a result or an exception.
FairSpecWorkflow == SpecWorkflow /\ WF_vars(NextWorkflow)

NodeOrder == <<"START", "EXPLORE", "RESEARCH", "REPORT">>

\* The nodes run so far are the first ones of the fixed order, and the one
\* to run next is the next of that order.
InOrder ==
    /\ Len(state.steps) <= Len(NodeOrder)
    /\ \A i \in DOMAIN state.steps : state.steps[i] = NodeOrder[i]
    /\ state.pc = CASE Len(state.steps) = 0 -> "start"
                    [] Len(state.steps) = 1 -> "explore"
                    [] Len(state.steps) = 2 -> "research"
                    [] Len(state.steps) = 3 -> "report"
                    [] OTHER -> state.pc
    /\ Len(state.steps) = 4 <=> state.pc \in {"END", "returned"}

\* A failure or an exception of an agent is in state.error after its node.
FailureRecorded(agent_result) ==
    (~agent_result.none /\ ~agent_result.success) => bool(state.error)

RunEnded ==
    state.pc = "returned" =>
        /\ state.steps = NodeOrder
        /\ ~state.final_report.none
        /\ state.ret.report = state.final_report
        /\ state.ret.success = ~bool(state.error)
        /\ state.ret.success = state.error.none

\* C27: a run visits START, EXPLORE, RESEARCH, REPORT in this order and then
\* ends; a failure result or an exception in EXPLORE or RESEARCH is recorded
\* in state.error and the run goes on, so REPORT runs and final_report is
\* set; an error once recorded is never cleared; the returned success flag
\* is false exactly when an error was recorded.
C27_WorkflowRunsToReport ==
    /\ [](InOrder /\ RunEnded
          /\ FailureRecorded(state.explorer_result)
          /\ FailureRecorded(state.researcher_result))
    /\ [][/\ bool(state.error) => bool(state'.error)
          /\ (ExploreNode /\ state'.explorer_result.none) => bool(state'.error)
          /\ (ResearchNode /\ state'.researcher_result.none) => bool(state'.error)
          /\ (ExploreNode \/ ResearchNode) => state'.pc \in {"research", "report"}]_vars
    /\ <>(state.pc = "returned")

\* A run in which the Explorer failed, the Researcher then succeeded, the
\* report was built, and the run returned success False with the report.
C27_Witness ==
    /\ state.pc = "returned"
    /\ ~state.explorer_result.none /\ ~state.explorer_result.success
    /\ ~state.researcher_result.none /\ state.researcher_result.success
    /\ state.error = Str(<<"Explorer failed: ", "Unknown error">>)
    /\ state.final_report.text[1] = "RESEARCH REPORT"
    /\ state.ret.success = FALSE


----------------------------------------------------------------------------
(* Research views and their dependencies                                   *)
(* (src/src/agents/researcher_agent.py, src/src/agents/base_agent.py)      *)
(*                                                                         *)
(* The JSON text of a list column is kept as the list it encodes.          *)

\* ViewMetadata(view_name=..., layer=..., status='DRAFT') of
\* validate_and_execute_view: the lineage lists take their default, []
ResearchView(name, layer) ==
    [view_name |-> name, layer |-> layer, domain |-> "fraud", status |-> "DRAFT",
     usage_count |-> 0, base_tables |-> {"transactions"},
     depends_on_views |-> {}, used_by_views |-> {}]

\* ResearcherAgent.create_research_view: executed tells whether the DDL was
\* valid and ran; an exception of register_view is caught and reported.
create_research_view(cat, id, name, depends_on_views, t, executed) ==
    LET reg == register_view(cat, id, ResearchView(name, 2), t) IN
    IF ~executed THEN [cat |-> cat, ret |-> "failure"]
    ELSE IF reg.ret # "Row" THEN [cat |-> cat, ret |-> "failure"]
    ELSE IF depends_on_views # {} /\ find_by_name(reg.cat, name).kind = "Row"
         THEN [cat |-> update_view(reg.cat, name,
                                   <<<<"depends_on_views", depends_on_views>>>>).cat,
               ret |-> "success"]
         ELSE [cat |-> reg.cat, ret |-> "success"]

----------------------------------------------------------------------------
(* SpecDeps: views registered with and without dependencies, and           *)
(* update_view calls on their depends_on_views                             *)

ResearchNames == {"v_a", "v_b"}
ResearchDependencies ==
    {D \in SUBSET (ResearchNames \cup {"v_x"}) : Cardinality(D) <= MaxDependencies}

InitDeps ==
    /\ catalog = {}
    /\ next_id = 1
    /\ now = 0
    /\ last = [op |-> "init", name |-> "none", ret |-> "none"]
    /\ streak = [n \in ViewNames |-> -1]
    /\ callers = [c \in Callers |-> IdleCaller]
    /\ usage0 = [n \in ViewNames |-> 0]
    /\ NoSolver
    /\ NoAgent

deps_frame == <<now, streak, callers, usage0, solver_vars, agent_vars>>

\* A discovery view registered through validate_and_execute_view.
RegisterDiscoveryView(name) ==
    LET res == register_view(catalog, next_id, ResearchView(name, 1), now) IN
    /\ catalog' = res.cat
    /\ next_id' = IF res.ret = "Row" THEN next_id + 1 ELSE next_id
    /\ Done("register_view", name, res.ret)
    /\ UNCHANGED deps_frame

CreateResearchView(name, depends_on_views, executed) ==
    LET res == create_research_view(catalog, next_id, name, depends_on_views, now, executed) IN
    /\ name \notin depends_on_views      \* a view is not defined over itself
    /\ catalog' = res.cat
    /\ next_id' = IF res.ret = "success" THEN next_id + 1 ELSE next_id
    /\ Done("create_research_view", name, res.ret)
    /\ UNCHANGED deps_frame

UpdateDependsOn(name, depends_on_views) ==
    LET res == update_view(catalog, name, <<<<"depends_on_views", depends_on_views>>>>) IN
    /\ name \notin depends_on_views
    /\ catalog' = res.cat
    /\ Done("update_view", name, res.ret)
    /\ UNCHANGED <<next_id, deps_frame>>

NextDeps ==
    \/ \E name \in ResearchNames : RegisterDiscoveryView(name)
    \/ \E name \in ResearchNames, D \in ResearchDependencies, executed \in BOOLEAN :
          CreateResearchView(name, D, executed)
    \/ \E name \in ResearchNames, D \in ResearchDependencies : UpdateDependsOn(name, D)

SpecDeps == InitDeps /\ [][NextDeps]_vars

RegisteredViews(cat) == {n \in DependencyNames : find_by_name(cat, n).kind = "Row"}

\* C28: for registered views A and B, B is in A's depends_on_views exactly
\* when get_view_lineage(B) lists A among its downstream_views.
C28_LineageMutuallyConsistent ==
    \A a \in RegisteredViews(catalog), b \in RegisteredViews(catalog) :
        (b \in TheRow(find_by_name(catalog, a)).depends_on_views)
            <=> (a \in view_lineage(catalog, b).downstream_views)

============================================================================
